---------------------------- MODULE CompositionProofs --------------------------
(* What clients may rely on, for any number of objects: whatever they do, that *)
(* an object has one parent and is not taken from it; if they honour every duty*)
(* of Composition.tla, that the lookup set claims no stranger, nothing is above*)
(* itself, and whatever is alive is held or sits below something held.  The    *)
(* invariants that a step preserves are not those that a client reads: "sits   *)
(* below something held" is preserved as "is held or in a living list", from   *)
(* which it follows because a climb through a finite set of objects without a  *)
(* cycle ends.                                                                 *)
EXTENDS Composition, ListLemmas, FiniteSetTheorems

--------------------------------------------------------------------------------
(* Reference counting.                                                         *)

\* What survives was alive, contains what the clients hold, is justified by
\* itself, and contains what the surviving compositions list.
LEMMA SurvivorsFacts ==
    ASSUME NEW ch \in [Compositions -> Seq(Objects)], NEW al \in SUBSET Objects,
           NEW hd \in SUBSET al
    PROVE  LET live == Survivors(ch, hd, al)
           IN  /\ live \subseteq al
               /\ hd \subseteq live
               /\ Kept(ch, hd, live)
               /\ \A c \in live \cap Compositions : Range(ch[c]) \cap al \subseteq live
  <1> DEFINE live == Survivors(ch, hd, al)
  <1>1. \A S \in SUBSET al : Kept(ch, hd, S) => S \subseteq live
    BY Zenon DEF Survivors
  <1>2. \A x \in live : \E S \in SUBSET al : Kept(ch, hd, S) /\ x \in S
    BY Zenon DEF Survivors
  <1> HIDE DEF live
  <1>3. live \subseteq al
    BY <1>2
  <1>4. hd \subseteq live
    BY <1>1, Zenon DEF Kept
  <1>5. Kept(ch, hd, live)
    <2> SUFFICES ASSUME NEW x \in live, x \notin hd
                 PROVE  \E p \in live \cap Compositions : x \in Range(ch[p])
      BY Zenon DEF Kept
    <2>1. PICK S \in SUBSET al : Kept(ch, hd, S) /\ x \in S
      BY <1>2
    <2>2. PICK p \in S \cap Compositions : x \in Range(ch[p])
      BY <2>1, Zenon DEF Kept
    <2> QED BY <2>1, <2>2, <1>1
  <1>6. ASSUME NEW c \in live \cap Compositions PROVE Range(ch[c]) \cap al \subseteq live
    <2> DEFINE S == live \cup (Range(ch[c]) \cap al)
    <2>1. S \in SUBSET al
      BY <1>3
    <2>2. Kept(ch, hd, S)
      BY <1>5, Zenon DEF Kept
    <2> QED BY <2>1, <2>2, <1>1, Zenon
  <1> QED BY <1>3, <1>4, <1>5, <1>6 DEF live

\* The end of a call leaves every record well typed and nothing in the records
\* of what was destroyed.
LEMMA SettleTyped ==
    ASSUME NEW ch \in [Compositions -> Seq(Objects)],
           NEW cs \in [Compositions -> SUBSET Objects],
           NEW par \in [Objects -> Compositions \cup {NULL}],
           NEW al \in SUBSET Objects, NEW hd \in SUBSET al,
           \A c \in Compositions \ al : ch[c] = <<>> /\ cs[c] = {}
    PROVE  Typed(Blank(ch, Gone(ch, hd, al), <<>>),
                 Blank(cs, Gone(ch, hd, al), {}),
                 Unlisted(par, ch, Survivors(ch, hd, al), Gone(ch, hd, al)),
                 hd, Survivors(ch, hd, al))
  <1> DEFINE live == Survivors(ch, hd, al)
             gone == Gone(ch, hd, al)
             ch1 == Blank(ch, gone, <<>>)
             cs1 == Blank(cs, gone, {})
             par1 == Unlisted(par, ch, live, gone)
  <1>1. live \subseteq al /\ hd \subseteq live
    BY SurvivorsFacts, Zenon
  <1>2. gone = Compositions \cap (al \ live)
    BY DEF Gone
  <1> HIDE DEF live, gone
  <1>3. ch1 \in [Compositions -> Seq(Objects)] /\ cs1 \in [Compositions -> SUBSET Objects]
    BY EmptySeq DEF Blank
  <1>4. par1 \in [Objects -> Compositions \cup {NULL}]
    BY DEF Unlisted
  <1>5. ASSUME NEW c \in Compositions \ live PROVE ch1[c] = <<>> /\ cs1[c] = {}
    BY <1>2 DEF Blank
  <1>6. ASSUME NEW o \in Objects \ live PROVE par1[o] = NULL
    BY DEF Unlisted
  <1>7. live \in SUBSET Objects /\ hd \in SUBSET live
    BY <1>1
  <1> HIDE DEF ch1, cs1, par1
  <1>8. Typed(ch1, cs1, par1, hd, live)
    BY <1>3, <1>4, <1>5, <1>6, <1>7 DEF Typed
  <1> QED BY <1>8 DEF ch1, cs1, par1, live, gone

--------------------------------------------------------------------------------
(* clone().                                                                    *)

\* What is below o: o, whatever the compositions below o list, nothing else.
LEMMA BelowFacts ==
    ASSUME TypeOK, NEW o \in Objects
    PROVE  /\ o \in Below(o) /\ Below(o) \subseteq Objects
           /\ \A c \in Below(o) \cap Compositions : Range(children[c]) \subseteq Below(o)
           /\ \A x \in Below(o) \ {o} :
                \E c \in Below(o) \cap Compositions : x \in Range(children[c])
  <1> DEFINE Closed(S) == \A c \in S \cap Compositions : Range(children[c]) \subseteq S
  <1>1. \A x : x \in Below(o) <=>
               x \in Objects /\ \A S \in SUBSET Objects : o \in S /\ Closed(S) => x \in S
    BY Zenon DEF Below
  <1>2. o \in Below(o) /\ Below(o) \subseteq Objects
    BY <1>1
  <1>3. ASSUME NEW c \in Below(o) \cap Compositions PROVE Range(children[c]) \subseteq Below(o)
    <2>1. Range(children[c]) \subseteq Objects
      BY DEF TypeOK, Typed, Range, Objects
    <2> QED BY <1>1, <2>1
  <1>4. ASSUME NEW x \in Below(o) \ {o}
        PROVE  \E c \in Below(o) \cap Compositions : x \in Range(children[c])
    <2> SUFFICES ASSUME \A c \in Below(o) \cap Compositions : x \notin Range(children[c])
                 PROVE  FALSE
      OBVIOUS
    <2> DEFINE S == Below(o) \ {x}
    <2>1. S \in SUBSET Objects /\ o \in S
      BY <1>2
    <2>2. Closed(S)
      BY <1>3
    <2> HIDE DEF S, Closed
    <2>3. x \in S
      BY <2>1, <2>2, <1>1
    <2> QED BY <2>3 DEF S
  <1> QED BY <1>2, <1>3, <1>4

\* The copies: every new object comes from one object of the structure.
LEMMA CopyingFacts ==
    ASSUME TypeOK, KindsAssumption, NEW o \in Objects, NEW f \in Copying(o)
    PROVE  /\ f \in [Below(o) -> Objects \ alive]
           /\ Range(f) \subseteq Objects \ alive
           /\ \A x, y \in Below(o) : f[x] = f[y] => x = y
           /\ \A x \in Below(o) : x \in Compositions <=> f[x] \in Compositions
           /\ \A x \in Below(o) : (CHOOSE z \in DOMAIN f : f[z] = f[x]) = x
  <1>1. /\ f \in [Below(o) -> Objects \ alive] /\ IsInjective(f)
        /\ \A x \in DOMAIN f : x \in Compositions <=> f[x] \in Compositions
    BY DEF Copying
  <1>2. Range(f) \subseteq Objects \ alive
    BY <1>1 DEF Range
  <1>3. \A x, y \in Below(o) : f[x] = f[y] => x = y
    BY <1>1 DEF IsInjective
  <1>4. ASSUME NEW x \in Below(o) PROVE (CHOOSE z \in DOMAIN f : f[z] = f[x]) = x
    BY <1>1, <1>3
  <1> QED BY <1>1, <1>2, <1>3, <1>4

\* The state after a successful clone, for each object: an old object keeps its
\* records, a copied composition lists the copies of what its original lists,
\* and a copy's parent is the copy of a composition that lists its original.
LEMMA CopyEffect ==
    ASSUME TypeOK, KindsAssumption, NEW o \in alive, NEW f \in Copying(o), CopyOf(f, o)
    PROVE  /\ alive' = alive \cup Range(f) /\ held' = held \cup {f[o]}
           /\ childSet' = childSet
           /\ children' \in [Compositions -> Seq(Objects)]
           /\ parent' \in [Objects -> Compositions \cup {NULL}]
           /\ \A c \in Compositions \ Range(f) : children'[c] = children[c]
           /\ \A y \in Objects \ Range(f) : parent'[y] = parent[y]
           /\ \A d \in Below(o) \cap Compositions :
                /\ Len(children'[f[d]]) = Len(children[d])
                /\ \A i \in 1..Len(children[d]) : children'[f[d]][i] = f[children[d][i]]
           /\ parent'[f[o]] = NULL
           /\ \A x \in Below(o) \ {o} :
                \E d \in Below(o) \cap Compositions :
                    x \in Range(children[d]) /\ parent'[f[x]] = f[d]
  <1> DEFINE src(y) == CHOOSE x \in DOMAIN f : f[x] = y
             lister(x) == CHOOSE c \in DOMAIN f \cap Compositions : x \in Range(children[c])
  <1>0. o \in Objects
    BY DEF TypeOK, Typed
  <1>1. /\ f \in [Below(o) -> Objects \ alive]
        /\ Range(f) \subseteq Objects \ alive
        /\ \A x, y \in Below(o) : f[x] = f[y] => x = y
        /\ \A x \in Below(o) : x \in Compositions <=> f[x] \in Compositions
        /\ \A x \in Below(o) : src(f[x]) = x
    BY <1>0, CopyingFacts, Zenon
  <1>2. /\ o \in Below(o) /\ Below(o) \subseteq Objects
        /\ \A c \in Below(o) \cap Compositions : Range(children[c]) \subseteq Below(o)
        /\ \A x \in Below(o) \ {o} :
             \E c \in Below(o) \cap Compositions : x \in Range(children[c])
    BY <1>0, BelowFacts
  <1>3. /\ children' = [c \in Compositions |->
                          IF c \in Range(f)
                          THEN [i \in 1..Len(children[src(c)]) |-> f[children[src(c)][i]]]
                          ELSE children[c]]
        /\ childSet' = childSet
        /\ parent' = [y \in Objects |-> IF y \in Range(f) \ {f[o]}
                                        THEN f[lister(src(y))] ELSE parent[y]]
        /\ alive' = alive \cup Range(f)
        /\ held' = held \cup {f[o]}
    BY DEF CopyOf
  <1> HIDE DEF src, lister
  <1>4. \A y \in Range(f) : \E x \in Below(o) : y = f[x]
    BY <1>1 DEF Range
  <1>5. \A x \in Below(o) : f[x] \in Range(f)
    BY <1>1 DEF Range
  <1>6. ASSUME NEW d \in Below(o) \cap Compositions
        PROVE  /\ f[d] \in Compositions
               /\ children'[f[d]] = [i \in 1..Len(children[d]) |-> f[children[d][i]]]
               /\ children'[f[d]] \in Seq(Objects)
               /\ Len(children'[f[d]]) = Len(children[d])
               /\ \A i \in 1..Len(children[d]) : children'[f[d]][i] = f[children[d][i]]
    <2>1. f[d] \in Compositions /\ f[d] \in Range(f) /\ src(f[d]) = d
      BY <1>1, <1>5
    <2>2. children'[f[d]] = [i \in 1..Len(children[d]) |-> f[children[d][i]]]
      BY <2>1, <1>3
    <2>3. children[d] \in Seq(Objects) /\ Len(children[d]) \in Nat
      BY DEF TypeOK, Typed
    <2>4. \A i \in 1..Len(children[d]) : children[d][i] \in Below(o)
      BY <2>3, <1>2 DEF Range
    <2>5. \A i \in 1..Len(children[d]) : f[children[d][i]] \in Objects
      BY <2>4, <1>1
    <2> DEFINE t == [i \in 1..Len(children[d]) |-> f[children[d][i]]]
    <2>6. t \in Seq(Objects) /\ Len(t) = Len(children[d])
      BY <2>3, <2>5
    <2> QED BY <2>1, <2>2, <2>6
  <1>7. ASSUME NEW x \in Below(o) \ {o}
        PROVE  \E d \in Below(o) \cap Compositions :
                   /\ x \in Range(children[d]) /\ parent'[f[x]] = f[d] /\ f[d] \in Compositions
    <2>1. /\ lister(x) \in Below(o) \cap Compositions
          /\ x \in Range(children[lister(x)])
      <3>1. \E c \in DOMAIN f \cap Compositions : x \in Range(children[c])
        BY <1>1, <1>2
      <3>2. lister(x) \in DOMAIN f \cap Compositions /\ x \in Range(children[lister(x)])
        BY <3>1, Zenon DEF lister
      <3> QED BY <3>2, <1>1
    <2>2. f[x] \in Range(f) \ {f[o]} /\ f[x] \in Objects /\ src(f[x]) = x
      BY <1>1, <1>2, <1>5
    <2>3. parent'[f[x]] = f[lister(x)]
      BY <2>2, <1>3
    <2> QED BY <2>1, <2>3, <1>1
  <1>8. parent'[f[o]] = NULL
    <2>1. f[o] \in Objects \ alive
      BY <1>1, <1>2
    <2> QED BY <2>1, <1>3 DEF TypeOK, Typed
  <1>9. children' \in [Compositions -> Seq(Objects)]
    <2>1. ASSUME NEW c \in Compositions PROVE children'[c] \in Seq(Objects)
      <3>1. CASE c \in Range(f)
        <4>1. PICK x \in Below(o) : c = f[x]
          BY <3>1, <1>4
        <4>2. x \in Compositions
          BY <4>1, <1>1
        <4> QED BY <4>1, <4>2, <1>6
      <3>2. CASE c \notin Range(f)
        BY <3>2, <1>3 DEF TypeOK, Typed
      <3> QED BY <3>1, <3>2
    <2>2. children' = [c \in Compositions |-> children'[c]]
      BY <1>3
    <2> QED BY <2>1, <2>2
  <1>10. parent' \in [Objects -> Compositions \cup {NULL}]
    <2>1. ASSUME NEW y \in Objects PROVE parent'[y] \in Compositions \cup {NULL}
      <3>1. CASE y \in Range(f) \ {f[o]}
        BY <3>1, <1>4, <1>7
      <3>2. CASE y \notin Range(f) \ {f[o]}
        BY <3>2, <1>3 DEF TypeOK, Typed
      <3> QED BY <3>1, <3>2
    <2>2. parent' = [y \in Objects |-> parent'[y]]
      BY <1>3
    <2> QED BY <2>1, <2>2
  <1>11. /\ \A c \in Compositions \ Range(f) : children'[c] = children[c]
         /\ \A y \in Objects \ Range(f) : parent'[y] = parent[y]
    BY <1>3
  <1>12. \A d \in Below(o) \cap Compositions :
            /\ Len(children'[f[d]]) = Len(children[d])
            /\ \A i \in 1..Len(children[d]) : children'[f[d]][i] = f[children[d][i]]
    BY <1>6
  <1>13. \A x \in Below(o) \ {o} :
            \E d \in Below(o) \cap Compositions :
                x \in Range(children[d]) /\ parent'[f[x]] = f[d]
    BY <1>7
  <1> HIDE DEF src, lister
  <1> QED BY <1>3, <1>8, <1>9, <1>10, <1>11, <1>12, <1>13, Zenon

--------------------------------------------------------------------------------
(* Type correctness.                                                           *)

\* The index arithmetic of the mutators stays inside the list.
LEMMA SlotFacts ==
    ASSUME NEW T, NEW s \in Seq(T), NEW index \in Int
    PROVE  /\ InsertSlot(index, s) \in 1..(Len(s) + 1)
           /\ InList(index, s) => Adjusted(index, s) + 1 \in 1..Len(s)
  BY DEF InsertSlot, InList, Adjusted

\* A call that refuses or has nothing to do keeps the types.
LEMMA ReturnType ==
    ASSUME TypeOK, NEW st \in Statuses, Return(st)
    PROVE  TypeOK'
  BY DEF TypeOK, Typed, Return

\* Every step keeps the types, whatever duties the clients honour.
LEMMA TypeStep ==
    ASSUME KindsAssumption, ArgumentsAssumption, TypeOK, [Next]_vars
    PROVE  TypeOK'
  <1> USE KindsAssumption, ArgumentsAssumption
  <1>0. {"OK", "CHILD_ALREADY_PARENTED", "ILLEGAL_INDEX", "OBJECT_CYCLE"} = Statuses
    BY DEF Statuses
  <1>t. /\ children \in [Compositions -> Seq(Objects)]
        /\ childSet \in [Compositions -> SUBSET Objects]
        /\ parent \in [Objects -> Compositions \cup {NULL}]
        /\ alive \in SUBSET Objects /\ held \in SUBSET alive
        /\ \A c \in Compositions \ alive : children[c] = <<>> /\ childSet[c] = {}
        /\ Compositions \subseteq Objects
    BY DEF TypeOK, Typed, Objects
  <1>1. ASSUME NEW o \in Objects, New(o) PROVE TypeOK'
    BY <1>1, <1>0 DEF TypeOK, Typed, New
  <1>2. ASSUME NEW o \in Objects, Retain(o) PROVE TypeOK'
    BY <1>2, <1>0 DEF TypeOK, Typed, Retain
  <1>3. ASSUME NEW o \in Objects, Release(o) PROVE TypeOK'
    <2>1. held \ {o} \in SUBSET alive
      BY <1>t
    <2> QED BY <2>1, <1>3, <1>t, <1>0, SettleTyped DEF Release, Settle, TypeOK
  <1>4. ASSUME NEW o \in Objects, Clone(o) PROVE TypeOK'
    <2>1. CASE Return("OBJECT_CYCLE")
      BY <2>1, <1>0, ReturnType
    <2>2. CASE status' = "OK" /\ \E f \in Copying(o) : CopyOf(f, o)
      <3>1. PICK f \in Copying(o) : CopyOf(f, o)
        BY <2>2
      <3>2. o \in alive
        BY <1>4 DEF Clone
      <3>3. /\ alive' = alive \cup Range(f) /\ held' = held \cup {f[o]}
            /\ childSet' = childSet
            /\ children' \in [Compositions -> Seq(Objects)]
            /\ parent' \in [Objects -> Compositions \cup {NULL}]
            /\ \A c \in Compositions \ Range(f) : children'[c] = children[c]
            /\ \A y \in Objects \ Range(f) : parent'[y] = parent[y]
        BY <3>1, <3>2, CopyEffect, Zenon
      <3>4. Range(f) \subseteq Objects /\ f[o] \in Range(f)
        <4>1. f \in [Below(o) -> Objects \ alive] /\ o \in Below(o) /\ Range(f) \subseteq Objects \ alive
          BY <3>1, CopyingFacts, BelowFacts, Zenon
        <4> QED BY <4>1 DEF Range
      <3> QED BY <3>3, <3>4, <2>2, <1>0 DEF TypeOK, Typed
    <2> QED BY <2>1, <2>2, <1>4 DEF Clone
  <1>5. ASSUME NEW c \in Compositions, ClearChildren(c) PROVE TypeOK'
    <2> DEFINE ch == [children EXCEPT ![c] = <<>>]
               cs == [childSet EXCEPT ![c] = {}]
               par == [o \in Objects |-> IF o \in Range(children[c]) THEN NULL ELSE parent[o]]
    <2>1. ch \in [Compositions -> Seq(Objects)] /\ cs \in [Compositions -> SUBSET Objects]
      BY <1>t, EmptySeq
    <2>2. par \in [Objects -> Compositions \cup {NULL}]
      BY <1>t
    <2>3. \A d \in Compositions \ alive : ch[d] = <<>> /\ cs[d] = {}
      BY <1>t
    <2>4. Settle(ch, cs, par, held, alive) /\ status' \in Statuses
      BY <1>5, <1>0 DEF ClearChildren
    <2> HIDE DEF ch, cs, par
    <2> QED BY <2>1, <2>2, <2>3, <2>4, <1>t, SettleTyped DEF Settle, TypeOK
  <1>6. ASSUME NEW c \in Compositions, NEW list \in Lists, SetChildren(c, list) PROVE TypeOK'
    <2>1. CASE Return("CHILD_ALREADY_PARENTED")
      BY <2>1, <1>0, ReturnType
    <2>2. CASE ~Return("CHILD_ALREADY_PARENTED")
      <3> DEFINE ch == [children EXCEPT ![c] = list]
                 cs == [childSet EXCEPT ![c] = Range(list)]
                 par == [o \in Objects |-> IF o \in Range(list) THEN c ELSE parent[o]]
      <3>1. list \in Seq(Objects) /\ Range(list) \subseteq Objects /\ c \in alive
        BY <1>6, <1>t DEF SetChildren
      <3>2. ch \in [Compositions -> Seq(Objects)] /\ cs \in [Compositions -> SUBSET Objects]
        BY <3>1, <1>t
      <3>3. par \in [Objects -> Compositions \cup {NULL}]
        BY <1>t
      <3>4. \A d \in Compositions \ alive : ch[d] = <<>> /\ cs[d] = {}
        BY <3>1, <1>t
      <3>5. Settle(ch, cs, par, held, alive) /\ status' \in Statuses
        BY <2>2, <1>6, <1>0 DEF SetChildren
      <3> HIDE DEF ch, cs, par
      <3> QED BY <3>2, <3>3, <3>4, <3>5, <1>t, SettleTyped DEF Settle, TypeOK
    <2> QED BY <2>1, <2>2
  <1>7. ASSUME NEW c \in Compositions, NEW i \in Indices, NEW o \in Objects, InsertChild(c, i, o)
        PROVE  TypeOK'
    <2>1. CASE Return("CHILD_ALREADY_PARENTED")
      BY <2>1, <1>0, ReturnType
    <2>2. CASE ~Return("CHILD_ALREADY_PARENTED")
      <3> DEFINE s == InsertAt(children[c], InsertSlot(i, children[c]), o)
                 ch == [children EXCEPT ![c] = s]
                 cs == [childSet EXCEPT ![c] = childSet[c] \cup {o}]
                 par == [parent EXCEPT ![o] = c]
      <3>1. c \in alive /\ s \in Seq(Objects)
        BY <1>7, <1>t, SlotFacts, InsertAtElements DEF InsertChild
      <3>5. Settle(ch, cs, par, held, alive) /\ status' \in Statuses
        BY <2>2, <1>7, <1>0 DEF InsertChild
      <3> HIDE DEF s
      <3>2. ch \in [Compositions -> Seq(Objects)] /\ cs \in [Compositions -> SUBSET Objects]
        BY <3>1, <1>t
      <3>3. par \in [Objects -> Compositions \cup {NULL}]
        BY <1>t
      <3>4. \A d \in Compositions \ alive : ch[d] = <<>> /\ cs[d] = {}
        BY <3>1, <1>t
      <3> HIDE DEF ch, cs, par
      <3> QED BY <3>2, <3>3, <3>4, <3>5, <1>t, SettleTyped DEF Settle, TypeOK
    <2> QED BY <2>1, <2>2
  <1>8. ASSUME NEW c \in Compositions, NEW i \in Indices, NEW o \in Objects, SetChild(c, i, o)
        PROVE  TypeOK'
    <2> DEFINE slot == Adjusted(i, children[c]) + 1
               old == children[c][slot]
    <2>1. CASE \E st \in Statuses : Return(st)
      BY <2>1, ReturnType
    <2>2. CASE ~\E st \in Statuses : Return(st)
      <3> DEFINE s == ReplaceAt(children[c], slot, o)
                 ch == [children EXCEPT ![c] = s]
                 cs == [childSet EXCEPT ![c] = (childSet[c] \ {old}) \cup {o}]
                 par == [parent EXCEPT ![old] = NULL, ![o] = c]
      <3>5. /\ Settle(ch, cs, par, held, alive) /\ status' \in Statuses
            /\ c \in alive /\ InList(i, children[c])
        BY <2>2, <1>8, <1>0 DEF SetChild
      <3>1. s \in Seq(Objects)
        BY <3>5, <1>t, SlotFacts, ReplaceAtElements
      <3> HIDE DEF s, old
      <3>2. ch \in [Compositions -> Seq(Objects)] /\ cs \in [Compositions -> SUBSET Objects]
        BY <3>1, <1>t
      <3>3. par \in [Objects -> Compositions \cup {NULL}]
        BY <1>t
      <3>4. \A d \in Compositions \ alive : ch[d] = <<>> /\ cs[d] = {}
        BY <3>5, <1>t
      <3> HIDE DEF ch, cs, par
      <3> QED BY <3>2, <3>3, <3>4, <3>5, <1>t, SettleTyped DEF Settle, TypeOK
    <2> QED BY <2>1, <2>2
  <1>9. ASSUME NEW c \in Compositions, NEW i \in Indices, RemoveChild(c, i) PROVE TypeOK'
    <2>1. CASE Return("ILLEGAL_INDEX")
      BY <2>1, <1>0, ReturnType
    <2>2. ASSUME NEW s \in Seq(Objects), NEW x, NEW y, c \in alive, status' = "OK",
                 Settle([children EXCEPT ![c] = s], [childSet EXCEPT ![c] = childSet[c] \ {x}],
                        [parent EXCEPT ![y] = NULL], held, alive)
          PROVE  TypeOK'
      <3> DEFINE ch == [children EXCEPT ![c] = s]
                 cs == [childSet EXCEPT ![c] = childSet[c] \ {x}]
                 par == [parent EXCEPT ![y] = NULL]
      <3>1. ch \in [Compositions -> Seq(Objects)] /\ cs \in [Compositions -> SUBSET Objects]
        BY <1>t
      <3>2. par \in [Objects -> Compositions \cup {NULL}]
        BY <1>t
      <3>3. \A d \in Compositions \ alive : ch[d] = <<>> /\ cs[d] = {}
        BY <2>2, <1>t
      <3>4. Settle(ch, cs, par, held, alive) /\ status' \in Statuses
        BY <2>2, <1>0
      <3> HIDE DEF ch, cs, par
      <3> QED BY <3>1, <3>2, <3>3, <3>4, <1>t, SettleTyped DEF Settle, TypeOK
    <2>3. CASE InList(i, children[c]) /\ RemoveAtSlot(c, Adjusted(i, children[c]) + 1)
      <3> DEFINE slot == Adjusted(i, children[c]) + 1
      <3>1. RemoveAt(children[c], slot) \in Seq(Objects)
        BY <2>3, <1>t, SlotFacts, RemoveAtElements
      <3>2. c \in alive
        BY <1>9 DEF RemoveChild
      <3> QED BY <2>3, <3>1, <3>2, <2>2 DEF RemoveAtSlot
    <2>4. CASE children[c] # <<>> /\ RemoveOutside(c)
      <3>1. Front(children[c]) \in Seq(Objects)
        BY <2>4, <1>t, FrontElements
      <3>2. c \in alive
        BY <1>9 DEF RemoveChild
      <3> QED BY <2>4, <3>1, <3>2, <2>2 DEF RemoveOutside
    <2> QED BY <1>9, <2>1, <2>3, <2>4 DEF RemoveChild
  <1>10. CASE UNCHANGED vars
    BY <1>10 DEF TypeOK, Typed, vars
  <1> QED
    BY <1>1, <1>2, <1>3, <1>4, <1>5, <1>6, <1>7, <1>8, <1>9, <1>10 DEF Next

\* Every list, set and pointer of the hierarchy refers to objects of the right
\* class, and nothing refers from or through what has been destroyed, for any
\* clients.
THEOREM TypeCorrect ==
    Spec => []TypeOK
  <1>1. Init => TypeOK
    BY EmptySeq DEF Init, TypeOK, Typed, Statuses
  <1>2. TypeOK /\ [Next]_vars => TypeOK'
    BY TypeStep, KindsAssumption, ArgumentsAssumption
  <1> QED BY <1>1, <1>2, PTL DEF Spec

--------------------------------------------------------------------------------
(* One place for each object, and its parent pointer names it.  This is the    *)
(* strengthening of ParentMatchesLists and InOnePlace that a step preserves:   *)
(* it speaks of dead objects too, and says that lists hold living ones.        *)

WellFormed(ch, par, al) ==
    /\ \A c \in Compositions : IsInjective(ch[c]) /\ Range(ch[c]) \subseteq al
    /\ \A c \in Compositions, o \in Objects : o \in Range(ch[c]) <=> par[o] = c

\* Destruction at the end of a call keeps the structure: a dead composition's
\* children lose their pointer, and a composition with a child in its list that
\* survives is not the dead one.
LEMMA SettleWellFormed ==
    ASSUME KindsAssumption,
           NEW ch \in [Compositions -> Seq(Objects)],
           NEW par \in [Objects -> Compositions \cup {NULL}],
           NEW al \in SUBSET Objects, NEW hd \in SUBSET al,
           \A c \in Compositions \ al : ch[c] = <<>>,
           WellFormed(ch, par, al)
    PROVE  WellFormed(Blank(ch, Gone(ch, hd, al), <<>>),
                      Unlisted(par, ch, Survivors(ch, hd, al), Gone(ch, hd, al)),
                      Survivors(ch, hd, al))
  <1> DEFINE live == Survivors(ch, hd, al)
             gone == Gone(ch, hd, al)
             ch1 == Blank(ch, gone, <<>>)
             par1 == Unlisted(par, ch, live, gone)
  <1>1. /\ live \subseteq al
        /\ \A c \in live \cap Compositions : Range(ch[c]) \cap al \subseteq live
    BY SurvivorsFacts, Zenon
  <1>2. gone = Compositions \cap (al \ live)
    BY DEF Gone
  <1> HIDE DEF live, gone
  <1>3. /\ \A c \in Compositions : ch1[c] = IF c \in gone THEN <<>> ELSE ch[c]
        /\ \A o \in Objects :
             par1[o] = IF o \notin live \/ \E p \in gone : o \in Range(ch[p])
                       THEN NULL ELSE par[o]
    BY DEF Blank, Unlisted
  <1>4. /\ \A c \in Compositions : IsInjective(ch[c]) /\ Range(ch[c]) \subseteq al
        /\ \A c \in Compositions, o \in Objects : o \in Range(ch[c]) <=> par[o] = c
    BY DEF WellFormed
  <1>5. Range(<<>>) = {} /\ IsInjective(<<>>)
    BY DEF Range, IsInjective
  <1>6. \A c \in Compositions : c \notin gone /\ Range(ch[c]) # {} => c \in live
    BY <1>2, <1>5
  <1> HIDE DEF ch1, par1
  <1>7. ASSUME NEW c \in Compositions
        PROVE  IsInjective(ch1[c]) /\ Range(ch1[c]) \subseteq live
    BY <1>1, <1>3, <1>4, <1>5, <1>6
  <1>8. ASSUME NEW c \in Compositions, NEW o \in Objects
        PROVE  o \in Range(ch1[c]) <=> par1[o] = c
    <2>1. CASE c \in gone
      <3>1. o \notin Range(ch1[c])
        BY <2>1, <1>3, <1>5
      <3>2. ASSUME par1[o] = c PROVE FALSE
        <4>1. par[o] = c /\ o \notin Range(ch[c])
          BY <3>2, <2>1, <1>3, KindsAssumption DEF Objects
        <4> QED BY <4>1, <1>4
      <3> QED BY <3>1, <3>2
    <2>2. CASE c \notin gone
      <3>1. ch1[c] = ch[c]
        BY <2>2, <1>3
      <3>2. ASSUME o \in Range(ch[c]) PROVE par1[o] = c
        <4>1. c \in live /\ o \in live /\ par[o] = c
          BY <3>2, <2>2, <1>1, <1>4, <1>6
        <4>2. \A p \in gone : o \notin Range(ch[p])
          BY <4>1, <2>2, <1>2, <1>4
        <4> QED BY <4>1, <4>2, <1>3
      <3>3. ASSUME par1[o] = c PROVE o \in Range(ch[c])
        BY <3>3, <1>3, <1>4, KindsAssumption DEF Objects
      <3> QED BY <3>1, <3>2, <3>3
    <2> QED BY <2>1, <2>2
  <1> QED BY <1>7, <1>8 DEF WellFormed, ch1, par1, live, gone

\* Every mutator gives one composition a new list, and changes no pointer but
\* from it and to it.
LEMMA RelistWellFormed ==
    ASSUME KindsAssumption,
           NEW ch \in [Compositions -> Seq(Objects)],
           NEW old \in [Objects -> Compositions \cup {NULL}],
           NEW par \in [Objects -> Compositions \cup {NULL}],
           NEW al \in SUBSET Objects, NEW c \in Compositions, NEW list \in Seq(Objects),
           WellFormed(ch, old, al),
           IsInjective(list), Range(list) \subseteq al,
           \A o \in Objects : o \in Range(list) <=> par[o] = c,
           \A o \in Objects : par[o] = old[o] \/ {par[o], old[o]} \subseteq {c, NULL}
    PROVE  WellFormed([ch EXCEPT ![c] = list], par, al)
  <1>1. /\ \A d \in Compositions : IsInjective(ch[d]) /\ Range(ch[d]) \subseteq al
        /\ \A d \in Compositions, o \in Objects : o \in Range(ch[d]) <=> old[o] = d
    BY DEF WellFormed
  <1>2. NULL \notin Compositions
    BY KindsAssumption DEF Objects
  <1>3. ASSUME NEW d \in Compositions, NEW o \in Objects
        PROVE  o \in Range([ch EXCEPT ![c] = list][d]) <=> par[o] = d
    BY <1>1, <1>2
  <1> QED BY <1>1, <1>3 DEF WellFormed

\* Every step keeps the structure, provided that set_children is not used to
\* replace children and is not given a child twice.
LEMMA WellFormedStep ==
    ASSUME KindsAssumption, ArgumentsAssumption,
           {"replace_empty", "distinct"} \subseteq Obligations,
           TypeOK, WellFormed(children, parent, alive), [Next]_vars
    PROVE  WellFormed(children', parent', alive')
  <1> USE KindsAssumption, ArgumentsAssumption
  <1> DEFINE WF == WellFormed(children, parent, alive)
  <1>t. /\ children \in [Compositions -> Seq(Objects)]
        /\ parent \in [Objects -> Compositions \cup {NULL}]
        /\ alive \in SUBSET Objects /\ held \in SUBSET alive
        /\ \A c \in Compositions \ alive : children[c] = <<>>
        /\ \A o \in Objects \ alive : parent[o] = NULL
        /\ Compositions \subseteq Objects /\ NULL \notin Objects
    BY DEF TypeOK, Typed, Objects
  <1>w. /\ \A c \in Compositions : IsInjective(children[c]) /\ Range(children[c]) \subseteq alive
        /\ \A c \in Compositions, o \in Objects : o \in Range(children[c]) <=> parent[o] = c
    BY DEF WellFormed
  <1>e. <<>> \in Seq(Objects) /\ Range(<<>>) = {} /\ IsInjective(<<>>)
    BY DEF Range, IsInjective
  <1>r. ASSUME NEW st, Return(st) PROVE WF'
    BY <1>r DEF Return
  <1>1. ASSUME NEW o \in Objects, New(o) PROVE WF'
    BY <1>1, <1>w DEF New, WellFormed
  <1>2. ASSUME NEW o \in Objects, Retain(o) PROVE WF'
    BY <1>2, <1>w DEF Retain, WellFormed
  <1>3. ASSUME NEW o \in Objects, Release(o) PROVE WF'
    <2>1. held \ {o} \in SUBSET alive
      BY <1>t
    <2> QED BY <2>1, <1>3, <1>t, SettleWellFormed DEF Release, Settle
  <1>4. ASSUME NEW o \in Objects, Clone(o) PROVE WF'
    <2>1. CASE Return("OBJECT_CYCLE")
      BY <2>1, <1>r
    <2>2. CASE ~OnCycle(o) /\ \E f \in Copying(o) : CopyOf(f, o)
      <3>0. o \in alive
        BY <1>4 DEF Clone
      <3>1. PICK f \in Copying(o) : CopyOf(f, o)
        BY <2>2
      <3>2. /\ alive' = alive \cup Range(f)
            /\ children' \in [Compositions -> Seq(Objects)]
            /\ parent' \in [Objects -> Compositions \cup {NULL}]
            /\ \A c \in Compositions \ Range(f) : children'[c] = children[c]
            /\ \A y \in Objects \ Range(f) : parent'[y] = parent[y]
            /\ \A d \in Below(o) \cap Compositions :
                 /\ Len(children'[f[d]]) = Len(children[d])
                 /\ \A i \in 1..Len(children[d]) : children'[f[d]][i] = f[children[d][i]]
            /\ parent'[f[o]] = NULL
            /\ \A x \in Below(o) \ {o} :
                 \E d \in Below(o) \cap Compositions :
                     x \in Range(children[d]) /\ parent'[f[x]] = f[d]
        BY <3>0, <3>1, CopyEffect, Zenon
      <3>3. /\ f \in [Below(o) -> Objects \ alive]
            /\ Range(f) \subseteq Objects \ alive
            /\ \A x, y \in Below(o) : f[x] = f[y] => x = y
            /\ \A x \in Below(o) : x \in Compositions <=> f[x] \in Compositions
        BY <3>0, <3>1, <1>t, CopyingFacts, Zenon
      <3>4. /\ o \in Below(o) /\ Below(o) \subseteq Objects
            /\ \A c \in Below(o) \cap Compositions : Range(children[c]) \subseteq Below(o)
        BY <3>0, <1>t, BelowFacts, Zenon
      <3>5. /\ \A y \in Range(f) : \E x \in Below(o) : y = f[x]
            /\ \A x \in Below(o) : f[x] \in Range(f)
        BY <3>3 DEF Range
      <3>6. \A d \in Below(o) \cap Compositions : o \notin Range(children[d])
        BY <2>2, <3>4 DEF OnCycle
      <3>7. ASSUME NEW d \in Below(o) \cap Compositions
            PROVE  /\ IsInjective(children'[f[d]])
                   /\ \A y : y \in Range(children'[f[d]])
                             <=> \E x \in Range(children[d]) : y = f[x]
        <4>1. /\ DOMAIN children[d] = 1..Len(children[d])
              /\ DOMAIN children'[f[d]] = 1..Len(children[d])
              /\ \A i \in 1..Len(children[d]) : /\ children'[f[d]][i] = f[children[d][i]]
                                                /\ children[d][i] \in Below(o)
          BY <3>2, <3>3, <3>4, <1>t DEF Range
        <4>2. IsInjective(children[d])
          BY <1>w
        <4>3. IsInjective(children'[f[d]])
          BY <4>1, <4>2, <3>3 DEF IsInjective
        <4>4. \A y : y \in Range(children'[f[d]]) <=> \E x \in Range(children[d]) : y = f[x]
          BY <4>1 DEF Range
        <4> QED BY <4>3, <4>4
      <3>8. ASSUME NEW c \in Compositions
            PROVE  IsInjective(children'[c]) /\ Range(children'[c]) \subseteq alive'
        <4>1. CASE c \in Range(f)
          <5>1. PICK d \in Below(o) \cap Compositions : c = f[d]
            BY <4>1, <3>5, <3>3
          <5>2. \A x \in Range(children[d]) : f[x] \in Range(f)
            BY <3>4, <3>5
          <5>3. \A y \in Range(children'[c]) : y \in Range(f)
            BY <5>1, <5>2, <3>7
          <5> QED BY <5>1, <5>3, <3>7, <3>2
        <4>2. CASE c \notin Range(f)
          BY <4>2, <3>2, <1>w
        <4> QED BY <4>1, <4>2
      <3>9. ASSUME NEW c \in Compositions, NEW y \in Objects
            PROVE  y \in Range(children'[c]) <=> parent'[y] = c
        <4>1. CASE c \in Range(f) /\ y \in Range(f)
          <5>1. PICK d \in Below(o) \cap Compositions : c = f[d]
            BY <4>1, <3>5, <3>3
          <5>2. PICK x \in Below(o) : y = f[x]
            BY <4>1, <3>5
          <5>3. y \in Range(children'[c]) <=> x \in Range(children[d])
            BY <5>1, <5>2, <3>7, <3>4, <3>3
          <5>4. CASE x = o
            BY <5>4, <5>3, <5>2, <3>6, <3>2, <1>t
          <5>5. CASE x # o
            <6>1. PICK e \in Below(o) \cap Compositions :
                       x \in Range(children[e]) /\ parent'[f[x]] = f[e]
              BY <5>5, <3>2
            <6>2. x \in Range(children[d]) <=> e = d
              BY <6>1, <1>w, <3>4
            <6>3. parent'[y] = c <=> e = d
              BY <6>1, <5>1, <5>2, <3>3
            <6> QED BY <6>2, <6>3, <5>3
          <5> QED BY <5>4, <5>5
        <4>2. CASE c \in Range(f) /\ y \notin Range(f)
          <5>1. PICK d \in Below(o) \cap Compositions : c = f[d]
            BY <4>2, <3>5, <3>3
          <5>2. y \notin Range(children'[c])
            BY <4>2, <5>1, <3>7, <3>4, <3>5
          <5>3. parent'[y] = parent[y] /\ c \notin alive
            BY <4>2, <3>2, <3>3
          <5>4. parent[y] # c
            BY <5>3, <1>w, <1>t, <1>e
          <5> QED BY <5>2, <5>3, <5>4
        <4>3. CASE c \notin Range(f) /\ y \in Range(f)
          <5>1. children'[c] = children[c] /\ y \notin alive
            BY <4>3, <3>2, <3>3
          <5>2. parent'[y] # c
            <6>1. PICK x \in Below(o) : y = f[x]
              BY <4>3, <3>5
            <6>2. CASE x = o
              BY <6>1, <6>2, <3>2, <1>t
            <6>3. CASE x # o
              BY <6>1, <6>3, <4>3, <3>2, <3>5
            <6> QED BY <6>2, <6>3
          <5> QED BY <5>1, <5>2, <1>w
        <4>4. CASE c \notin Range(f) /\ y \notin Range(f)
          BY <4>4, <3>2, <1>w
        <4> QED BY <4>1, <4>2, <4>3, <4>4
      <3> QED BY <3>8, <3>9 DEF WellFormed
    <2> QED BY <2>1, <2>2, <1>4 DEF Clone
  <1>5. ASSUME NEW c \in Compositions, ClearChildren(c) PROVE WF'
    <2> DEFINE ch == [children EXCEPT ![c] = <<>>]
               par == [o \in Objects |-> IF o \in Range(children[c]) THEN NULL ELSE parent[o]]
    <2>1. par \in [Objects -> Compositions \cup {NULL}]
      BY <1>t
    <2>2. \A o \in Objects : par[o] # c
      BY <1>w, <1>t
    <2>3. \A o \in Objects : par[o] = parent[o] \/ {par[o], parent[o]} \subseteq {c, NULL}
      BY <1>w, <1>t
    <2>4. Settle(ch, [childSet EXCEPT ![c] = {}], par, held, alive)
      BY <1>5 DEF ClearChildren
    <2> HIDE DEF par
    <2>5. WellFormed(ch, par, alive)
      BY <2>1, <2>2, <2>3, <1>e, <1>t, RelistWellFormed
    <2>6. ch \in [Compositions -> Seq(Objects)] /\ \A d \in Compositions \ alive : ch[d] = <<>>
      BY <1>t, <1>e
    <2> HIDE DEF ch
    <2> QED BY <2>1, <2>4, <2>5, <2>6, <1>t, SettleWellFormed DEF Settle
  <1>6. ASSUME NEW c \in Compositions, NEW list \in Lists, SetChildren(c, list) PROVE WF'
    <2>1. CASE Return("CHILD_ALREADY_PARENTED")
      BY <2>1, <1>r
    <2>2. CASE ~Return("CHILD_ALREADY_PARENTED")
      <3> DEFINE ch == [children EXCEPT ![c] = list]
                 par == [o \in Objects |-> IF o \in Range(list) THEN c ELSE parent[o]]
      <3>1. /\ Settle(ch, [childSet EXCEPT ![c] = Range(list)], par, held, alive)
            /\ c \in alive /\ Range(list) \subseteq alive
            /\ \A o \in Range(list) : parent[o] = NULL
            /\ children[c] = <<>> /\ IsInjective(list)
        BY <2>2, <1>6 DEF SetChildren, Honours, Orphan
      <3>2. list \in Seq(Objects) /\ par \in [Objects -> Compositions \cup {NULL}]
        BY <1>t
      <3>3. \A o \in Objects : o \in Range(list) <=> par[o] = c
        BY <3>1, <1>w, <1>e
      <3>4. \A o \in Objects : par[o] = parent[o] \/ {par[o], parent[o]} \subseteq {c, NULL}
        BY <3>1
      <3> HIDE DEF par
      <3>5. WellFormed(ch, par, alive)
        BY <3>1, <3>2, <3>3, <3>4, <1>t, RelistWellFormed
      <3>6. ch \in [Compositions -> Seq(Objects)] /\ \A d \in Compositions \ alive : ch[d] = <<>>
        BY <3>1, <3>2, <1>t
      <3> HIDE DEF ch
      <3> QED BY <3>1, <3>2, <3>5, <3>6, <1>t, SettleWellFormed DEF Settle
    <2> QED BY <2>1, <2>2
  <1>7. ASSUME NEW c \in Compositions, NEW i \in Indices, NEW o \in Objects, InsertChild(c, i, o)
        PROVE  WF'
    <2>1. CASE Return("CHILD_ALREADY_PARENTED")
      BY <2>1, <1>r
    <2>2. CASE ~Return("CHILD_ALREADY_PARENTED")
      <3> DEFINE list == InsertAt(children[c], InsertSlot(i, children[c]), o)
                 ch == [children EXCEPT ![c] = list]
                 par == [parent EXCEPT ![o] = c]
      <3>1. /\ Settle(ch, [childSet EXCEPT ![c] = childSet[c] \cup {o}], par, held, alive)
            /\ c \in alive /\ o \in alive /\ parent[o] = NULL
        BY <2>2, <1>7 DEF InsertChild, Orphan
      <3>2. o \notin Range(children[c])
        BY <3>1, <1>w, <1>t
      <3>3. /\ list \in Seq(Objects) /\ Range(list) = Range(children[c]) \cup {o}
            /\ IsInjective(list)
        <4>1. /\ children[c] \in Seq(Objects) /\ IsInjective(children[c])
              /\ InsertSlot(i, children[c]) \in 1..(Len(children[c]) + 1)
          BY <1>w, <1>t, SlotFacts
        <4> QED BY <4>1, <3>2, InsertAtElements
      <3> HIDE DEF list
      <3>4. par \in [Objects -> Compositions \cup {NULL}]
        BY <1>t
      <3>5. \A x \in Objects : x \in Range(list) <=> par[x] = c
        BY <3>3, <1>w, <1>t
      <3>6. \A x \in Objects : par[x] = parent[x] \/ {par[x], parent[x]} \subseteq {c, NULL}
        BY <3>1, <1>t
      <3> HIDE DEF par
      <3>r. Range(list) \subseteq alive
        BY <3>1, <3>3, <1>w
      <3>7. WellFormed(ch, par, alive)
        BY <3>3, <3>4, <3>5, <3>6, <3>r, <1>t, RelistWellFormed
      <3>8. ch \in [Compositions -> Seq(Objects)] /\ \A d \in Compositions \ alive : ch[d] = <<>>
        BY <3>1, <3>3, <1>t
      <3> HIDE DEF ch
      <3> QED BY <3>1, <3>4, <3>7, <3>8, <1>t, SettleWellFormed DEF Settle
    <2> QED BY <2>1, <2>2
  <1>8. ASSUME NEW c \in Compositions, NEW i \in Indices, NEW o \in Objects, SetChild(c, i, o)
        PROVE  WF'
    <2>1. CASE \E st \in Statuses : Return(st)
      BY <2>1, <1>r
    <2>2. CASE ~\E st \in Statuses : Return(st)
      <3> DEFINE slot == Adjusted(i, children[c]) + 1
                 old == children[c][slot]
                 list == ReplaceAt(children[c], slot, o)
                 ch == [children EXCEPT ![c] = list]
                 par == [parent EXCEPT ![old] = NULL, ![o] = c]
      <3>1. /\ Settle(ch, [childSet EXCEPT ![c] = (childSet[c] \ {old}) \cup {o}], par, held, alive)
            /\ c \in alive /\ o \in alive /\ parent[o] = NULL /\ InList(i, children[c])
        BY <2>2, <1>8 DEF SetChild, Orphan, Statuses
      <3>2. o \notin Range(children[c])
        BY <3>1, <1>w, <1>t
      <3>3. slot \in 1..Len(children[c]) /\ old \in Range(children[c])
        BY <3>1, <1>t, SlotFacts DEF Range
      <3>4. /\ list \in Seq(Objects) /\ Range(list) = (Range(children[c]) \ {old}) \cup {o}
            /\ IsInjective(list)
        BY <3>2, <3>3, <1>w, <1>t, ReplaceAtElements
      <3> HIDE DEF list, slot, old
      <3>5. par \in [Objects -> Compositions \cup {NULL}]
        BY <1>t
      <3>6. old \in alive /\ parent[old] = c /\ old # o
        BY <3>2, <3>3, <1>w, <1>t
      <3>7. \A x \in Objects : x \in Range(list) <=> par[x] = c
        BY <3>4, <3>6, <1>w, <1>t
      <3>8. \A x \in Objects : par[x] = parent[x] \/ {par[x], parent[x]} \subseteq {c, NULL}
        BY <3>1, <3>6, <1>t
      <3> HIDE DEF par
      <3>r. Range(list) \subseteq alive
        BY <3>1, <3>4, <1>w
      <3>9. WellFormed(ch, par, alive)
        BY <3>4, <3>5, <3>7, <3>8, <3>r, <1>t, RelistWellFormed
      <3>10. ch \in [Compositions -> Seq(Objects)] /\ \A d \in Compositions \ alive : ch[d] = <<>>
        BY <3>1, <3>4, <1>t
      <3> HIDE DEF ch
      <3> QED BY <3>1, <3>5, <3>9, <3>10, <1>t, SettleWellFormed DEF Settle
    <2> QED BY <2>1, <2>2
  <1>9. ASSUME NEW c \in Compositions, NEW i \in Indices, RemoveChild(c, i) PROVE WF'
    <2>0. c \in alive
      BY <1>9 DEF RemoveChild
    <2>1. CASE Return("ILLEGAL_INDEX")
      BY <2>1, <1>r
    <2>2. ASSUME NEW list \in Seq(Objects), NEW old \in Range(children[c]), NEW x,
                 Range(list) = Range(children[c]) \ {old}, IsInjective(list),
                 Settle([children EXCEPT ![c] = list], [childSet EXCEPT ![c] = childSet[c] \ {x}],
                        [parent EXCEPT ![old] = NULL], held, alive)
          PROVE  WF'
      <3> DEFINE ch == [children EXCEPT ![c] = list]
                 par == [parent EXCEPT ![old] = NULL]
      <3>1. par \in [Objects -> Compositions \cup {NULL}]
        BY <1>t
      <3>2. old \in alive /\ parent[old] = c
        BY <1>w, <1>t
      <3>3. \A o \in Objects : o \in Range(list) <=> par[o] = c
        BY <2>2, <3>2, <1>w, <1>t
      <3>4. \A o \in Objects : par[o] = parent[o] \/ {par[o], parent[o]} \subseteq {c, NULL}
        BY <3>2, <1>t
      <3>5. Settle(ch, [childSet EXCEPT ![c] = childSet[c] \ {x}], par, held, alive)
        BY <2>2
      <3> HIDE DEF par
      <3>6. WellFormed(ch, par, alive)
        BY <2>2, <3>1, <3>3, <3>4, <1>w, <1>t, RelistWellFormed
      <3>7. ch \in [Compositions -> Seq(Objects)] /\ \A d \in Compositions \ alive : ch[d] = <<>>
        BY <2>0, <1>t
      <3> HIDE DEF ch
      <3> QED BY <3>1, <3>5, <3>6, <3>7, <1>t, SettleWellFormed DEF Settle
    <2>3. CASE InList(i, children[c]) /\ RemoveAtSlot(c, Adjusted(i, children[c]) + 1)
      <3> DEFINE slot == Adjusted(i, children[c]) + 1
      <3>1. slot \in 1..Len(children[c]) /\ children[c][slot] \in Range(children[c])
        BY <2>3, <1>t, SlotFacts DEF Range
      <3>2. /\ RemoveAt(children[c], slot) \in Seq(Objects)
            /\ Range(RemoveAt(children[c], slot)) = Range(children[c]) \ {children[c][slot]}
            /\ IsInjective(RemoveAt(children[c], slot))
        BY <3>1, <1>w, <1>t, RemoveAtElements
      <3> QED BY <2>3, <3>1, <3>2, <2>2 DEF RemoveAtSlot
    <2>4. CASE children[c] # <<>> /\ RemoveOutside(c)
      <3>1. Last(children[c]) \in Range(children[c])
        <4>1. /\ Len(children[c]) \in 1..Len(children[c])
              /\ Last(children[c]) = children[c][Len(children[c])]
          BY <2>4, <1>t, FrontElements
        <4> QED BY <4>1, <1>t DEF Range
      <3>2. /\ Front(children[c]) \in Seq(Objects)
            /\ Range(Front(children[c])) = Range(children[c]) \ {Last(children[c])}
            /\ IsInjective(Front(children[c]))
        BY <2>4, <1>w, <1>t, FrontElements
      <3> QED BY <2>4, <3>1, <3>2, <2>2 DEF RemoveOutside
    <2> QED BY <1>9, <2>1, <2>3, <2>4 DEF RemoveChild
  <1>10. CASE UNCHANGED vars
    BY <1>10 DEF vars
  <1> QED
    BY <1>1, <1>2, <1>3, <1>4, <1>5, <1>6, <1>7, <1>8, <1>9, <1>10 DEF Next

\* The structure gives the three properties the clients rely on.
LEMMA WellFormedMeans ==
    ASSUME KindsAssumption, TypeOK, WellFormed(children, parent, alive)
    PROVE  ParentMatchesLists /\ NoDanglingParent /\ InOnePlace
  <1>t. /\ children \in [Compositions -> Seq(Objects)]
        /\ parent \in [Objects -> Compositions \cup {NULL}]
        /\ alive \in SUBSET Objects
        /\ \A c \in Compositions \ alive : children[c] = <<>>
    BY DEF TypeOK, Typed
  <1>w. /\ \A c \in Compositions : IsInjective(children[c])
        /\ \A c \in Compositions, o \in Objects : o \in Range(children[c]) <=> parent[o] = c
    BY DEF WellFormed
  <1>1. \A c \in Compositions \ alive : Range(children[c]) = {}
    BY <1>t DEF Range
  <1>2. ParentMatchesLists
    BY <1>t, <1>w, <1>1 DEF ParentMatchesLists
  <1>3. NoDanglingParent
    BY <1>t, <1>w, <1>1 DEF NoDanglingParent
  <1>4. ASSUME NEW c \in alive \cap Compositions, NEW d \in alive \cap Compositions,
               NEW i \in 1..Len(children[c]), NEW j \in 1..Len(children[d]),
               children[c][i] = children[d][j]
        PROVE  c = d /\ i = j
    <2>1. /\ children[c] \in Seq(Objects) /\ children[d] \in Seq(Objects)
          /\ DOMAIN children[c] = 1..Len(children[c])
      BY <1>t
    <2>2. children[c][i] \in Objects /\ children[c][i] \in Range(children[c])
          /\ children[d][j] \in Range(children[d])
      BY <2>1 DEF Range
    <2>3. c = d
      BY <2>2, <1>4, <1>w
    <2> QED BY <2>1, <2>3, <1>4, <1>w DEF IsInjective
  <1> QED BY <1>2, <1>3, <1>4 DEF InOnePlace

\* While set_children only fills empty compositions with distinct children, every
\* object is at one place of one list, and parent() names exactly the living
\* composition that lists it, whatever else the clients do: cycles, removals
\* outside the list, clones and destruction included.
THEOREM OneParent ==
    ASSUME {"replace_empty", "distinct"} \subseteq Obligations
    PROVE  Spec => []PlacedOnce
  <1> DEFINE WF == WellFormed(children, parent, alive)
  <1>1. Init => TypeOK /\ WF
    <2>1. Range(<<>>) = {} /\ IsInjective(<<>>)
      BY DEF Range, IsInjective
    <2>2. Init => TypeOK
      BY EmptySeq DEF Init, TypeOK, Typed, Statuses
    <2> QED BY <2>1, <2>2, KindsAssumption DEF Init, WellFormed, Objects
  <1>2. TypeOK /\ WF /\ [Next]_vars => TypeOK' /\ WF'
    BY TypeStep, WellFormedStep, KindsAssumption, ArgumentsAssumption
  <1>3. TypeOK /\ WF => PlacedOnce
    BY WellFormedMeans, KindsAssumption DEF PlacedOnce
  <1> HIDE DEF WF
  <1> QED BY <1>1, <1>2, <1>3, PTL DEF Spec

\* A step never exchanges one parent for another, whatever the clients do.
LEMMA NoStealingStep ==
    ASSUME KindsAssumption, ArgumentsAssumption, TypeOK, Next,
           NEW x \in alive \cap alive', parent[x] # NULL, parent'[x] # NULL
    PROVE  parent'[x] = parent[x]
  <1>t. /\ x \in Objects /\ NULL \notin Objects
        /\ parent \in [Objects -> Compositions \cup {NULL}]
        /\ alive \subseteq Objects
    BY KindsAssumption DEF TypeOK, Typed
  \* Destruction only clears pointers, so what a call assigned is what counts.
  <1>u. \A par, ch, live, gone :
          Unlisted(par, ch, live, gone)[x] = NULL \/ Unlisted(par, ch, live, gone)[x] = par[x]
    BY <1>t DEF Unlisted
  <1>r. ASSUME NEW st, Return(st) PROVE parent'[x] = parent[x]
    BY <1>r DEF Return
  <1>1. ASSUME NEW o \in Objects, New(o) \/ Retain(o) PROVE parent'[x] = parent[x]
    BY <1>1 DEF New, Retain
  <1>2. ASSUME NEW o \in Objects, Release(o) PROVE parent'[x] = parent[x]
    BY <1>2, <1>u DEF Release, Settle
  <1>3. ASSUME NEW o \in Objects, Clone(o) PROVE parent'[x] = parent[x]
    <2>1. ASSUME NEW f \in Copying(o), CopyOf(f, o) PROVE parent'[x] = parent[x]
      <3>1. x \notin Range(f)
        <4>1. Range(f) \subseteq Objects \ alive
          BY <2>1, KindsAssumption, CopyingFacts, Zenon
        <4> QED BY <4>1
      <3> QED BY <2>1, <3>1, <1>t DEF CopyOf
    <2> QED BY <1>3, <2>1, <1>r DEF Clone
  <1>4. ASSUME NEW c \in Compositions, ClearChildren(c) PROVE parent'[x] = parent[x]
    <2> DEFINE par == [o \in Objects |-> IF o \in Range(children[c]) THEN NULL ELSE parent[o]]
    <2>1. parent'[x] = NULL \/ parent'[x] = par[x]
      BY <1>4, <1>u DEF ClearChildren, Settle
    <2> QED BY <2>1, <1>t
  <1>5. ASSUME NEW c \in Compositions, NEW list \in Lists, SetChildren(c, list)
        PROVE  parent'[x] = parent[x]
    <2> DEFINE par == [o \in Objects |-> IF o \in Range(list) THEN c ELSE parent[o]]
    <2>1. CASE Return("CHILD_ALREADY_PARENTED")
      BY <2>1, <1>r
    <2>2. CASE ~Return("CHILD_ALREADY_PARENTED")
      <3>1. /\ parent'[x] = NULL \/ parent'[x] = par[x]
            /\ \A o \in Range(list) : parent[o] = NULL
        BY <1>5, <2>2, <1>u DEF SetChildren, Settle, Orphan
      <3> QED BY <3>1, <1>t
    <2> QED BY <2>1, <2>2
  <1>6. ASSUME NEW c \in Compositions, NEW i \in Indices, NEW o \in Objects, InsertChild(c, i, o)
        PROVE  parent'[x] = parent[x]
    <2>1. CASE Return("CHILD_ALREADY_PARENTED")
      BY <2>1, <1>r
    <2>2. CASE ~Return("CHILD_ALREADY_PARENTED")
      <3> DEFINE par == [parent EXCEPT ![o] = c]
      <3>1. parent[o] = NULL
        BY <1>6, <2>2 DEF InsertChild, Orphan
      <3>2. \E ch, live, gone : parent' = Unlisted(par, ch, live, gone)
        BY <1>6, <2>2, Zenon DEF InsertChild, Settle
      <3> HIDE DEF par
      <3>3. parent'[x] = NULL \/ parent'[x] = par[x]
        BY <3>2, <1>t DEF Unlisted
      <3> USE DEF par
      <3> QED BY <3>1, <3>3, <1>t
    <2> QED BY <2>1, <2>2
  <1>7. ASSUME NEW c \in Compositions, NEW i \in Indices, NEW o \in Objects, SetChild(c, i, o)
        PROVE  parent'[x] = parent[x]
    <2> DEFINE old == children[c][Adjusted(i, children[c]) + 1]
    <2>1. CASE \E st \in Statuses : Return(st)
      BY <2>1, <1>r
    <2>2. CASE ~\E st \in Statuses : Return(st)
      <3> DEFINE par == [parent EXCEPT ![old] = NULL, ![o] = c]
      <3>1. parent[o] = NULL
        BY <1>7, <2>2 DEF SetChild, Orphan, Statuses
      <3>2. \E ch, live, gone : parent' = Unlisted(par, ch, live, gone)
        BY <1>7, <2>2 DEF SetChild, Settle, Statuses
      <3> HIDE DEF old
      <3> HIDE DEF par
      <3>3. parent'[x] = NULL \/ parent'[x] = par[x]
        BY <3>2, <1>t DEF Unlisted
      <3> USE DEF par
      <3> QED BY <3>1, <3>3, <1>t
    <2> QED BY <2>1, <2>2
  <1>8. ASSUME NEW c \in Compositions, NEW i \in Indices, RemoveChild(c, i)
        PROVE  parent'[x] = parent[x]
    <2>1. CASE Return("ILLEGAL_INDEX")
      BY <2>1, <1>r
    <2>2. CASE ~Return("ILLEGAL_INDEX")
      <3>1. \E old, ch, live, gone : parent' = Unlisted([parent EXCEPT ![old] = NULL], ch, live, gone)
        <4>1. CASE RemoveAtSlot(c, Adjusted(i, children[c]) + 1)
          BY <4>1, Zenon DEF RemoveAtSlot, Settle
        <4>2. CASE RemoveOutside(c)
          BY <4>2, Zenon DEF RemoveOutside, Settle
        <4> QED BY <1>8, <2>2, <4>1, <4>2 DEF RemoveChild
      <3>2. \E old : parent'[x] = NULL \/ parent'[x] = [parent EXCEPT ![old] = NULL][x]
        BY <3>1, <1>t DEF Unlisted
      <3> QED BY <3>2, <1>t
    <2> QED BY <2>1, <2>2
  <1> QED
    BY <1>1, <1>2, <1>3, <1>4, <1>5, <1>6, <1>7, <1>8 DEF Next

\* A call never takes a child out of one composition and into another: any two
\* compositions that have had a child held it at different times with a state
\* between them in which it was nobody's.
THEOREM ChildrenAreNotStolen ==
    Spec => NoStealing
  <1> DEFINE Honest == \A o \in alive \cap alive' :
                          parent[o] \in alive \cap alive' /\ parent'[o] # NULL
                          => parent'[o] = parent[o]
  <1>1. ASSUME TypeOK, Next PROVE Honest
    <2> SUFFICES ASSUME NEW o \in alive \cap alive',
                        parent[o] \in alive \cap alive', parent'[o] # NULL
                 PROVE  parent'[o] = parent[o]
      OBVIOUS
    <2>1. parent[o] # NULL
      BY <1>1, KindsAssumption DEF TypeOK, Typed
    <2> QED BY <2>1, <1>1, NoStealingStep, KindsAssumption, ArgumentsAssumption
  <1>2. TypeOK /\ [Next]_vars => [Honest]_vars
    BY <1>1
  <1> HIDE DEF Honest
  <1>3. Spec => [][Honest]_vars
    BY <1>2, TypeCorrect, PTL DEF Spec
  <1> QED BY <1>3 DEF NoStealing, Honest

--------------------------------------------------------------------------------
(* The climb through the parent pointers par.                                  *)

Rising(par, S) == \A y \in S : par[y] # NULL => par[y] \in S

Above(par, o) == {x \in Objects : \A S \in SUBSET Objects : o \in S /\ Rising(par, S) => x \in S}

Loopless(par) == \A o \in Objects : par[o] # NULL => o \notin Above(par, par[o])

\* What a climb from o visits is the smallest set with o that is closed under it.
LEMMA AboveFacts ==
    ASSUME NEW par \in [Objects -> Compositions \cup {NULL}], NEW o \in Objects
    PROVE  /\ o \in Above(par, o) /\ Above(par, o) \subseteq Objects
           /\ Rising(par, Above(par, o))
           /\ \A S \in SUBSET Objects : o \in S /\ Rising(par, S) => Above(par, o) \subseteq S
  <1>1. \A x : x \in Above(par, o) <=>
               x \in Objects /\ \A S \in SUBSET Objects : o \in S /\ Rising(par, S) => x \in S
    BY Zenon DEF Above
  <1>2. ASSUME NEW y \in Above(par, o), par[y] # NULL PROVE par[y] \in Above(par, o)
    <2>1. par[y] \in Objects
      BY <1>1, <1>2 DEF Objects
    <2>2. ASSUME NEW S \in SUBSET Objects, o \in S, Rising(par, S) PROVE par[y] \in S
      BY <1>1, <1>2, <2>2 DEF Rising
    <2> QED BY <1>1, <2>1, <2>2
  <1>3. Rising(par, Above(par, o))
    BY <1>2 DEF Rising
  <1> QED BY <1>1, <1>3, Zenon

\* To see that there is no loop at o it is enough to find a closed set above it.
LEMMA NoLoopAt ==
    ASSUME NEW par \in [Objects -> Compositions \cup {NULL}], NEW o \in Objects,
           par[o] # NULL,
           NEW S \in SUBSET Objects, par[o] \in S, Rising(par, S), o \notin S
    PROVE  o \notin Above(par, par[o])
  BY Zenon DEF Above

\* Pointers that are cleared make no loop, nor do orphans that all go to one
\* composition whose ancestors they are not: the check each insertion relies on.
LEMMA JoinLoopless ==
    ASSUME KindsAssumption,
           NEW par \in [Objects -> Compositions \cup {NULL}], Loopless(par),
           NEW new \in [Objects -> Compositions \cup {NULL}],
           NEW T \in SUBSET Objects, NEW c \in Compositions,
           \A o \in T : par[o] = NULL /\ o \notin Above(par, c),
           \A x \in Objects : new[x] = NULL \/ new[x] = par[x] \/ (x \in T /\ new[x] = c)
    PROVE  Loopless(new)
  <1> DEFINE A == Above(par, c)
  <1>c. c \in Objects /\ NULL \notin Objects
    BY KindsAssumption DEF Objects
  <1>a. c \in A /\ A \subseteq Objects /\ Rising(par, A) /\ A \cap T = {}
    BY <1>c, AboveFacts
  <1>s. \A S \in SUBSET Objects : c \in S /\ Rising(par, S) => A \subseteq S
    BY <1>c, AboveFacts
  <1> HIDE DEF A
  <1>1. ASSUME NEW x \in Objects, new[x] # NULL PROVE x \notin Above(new, new[x])
    <2>1. CASE x \in T /\ new[x] = c
      <3>1. Rising(new, A)
        BY <1>a DEF Rising
      <3> QED BY <2>1, <3>1, <1>1, <1>a, NoLoopAt
    <2>2. CASE new[x] = par[x]
      <3> DEFINE B == Above(par, par[x])
      <3>0. par[x] \in Objects
        BY <2>2, <1>1 DEF Objects
      <3>1. par[x] \in B /\ B \subseteq Objects /\ Rising(par, B) /\ x \notin B
        BY <3>0, <2>2, <1>1, AboveFacts DEF Loopless
      <3>2. par[x] \in A => B \subseteq A
        BY <3>0, <1>a, AboveFacts
      <3> HIDE DEF B
      <3>3. CASE B \cap T = {}
        <4>1. Rising(new, B)
          BY <3>1, <3>3 DEF Rising
        <4> QED BY <4>1, <3>1, <2>2, <1>1, NoLoopAt
      <3>4. CASE B \cap T # {}
        <4>1. x \notin A
          <5>1. x \in A => par[x] \in A
            BY <1>a, <2>2, <1>1 DEF Rising
          <5> QED BY <5>1, <3>2, <3>4, <1>a
        <4>2. Rising(new, A \cup B)
          BY <3>1, <1>a DEF Rising
        <4>3. A \cup B \in SUBSET Objects /\ new[x] \in A \cup B /\ x \notin A \cup B
          BY <4>1, <3>1, <1>a, <2>2
        <4> QED BY <4>2, <4>3, <1>1, NoLoopAt
      <3> QED BY <3>3, <3>4
    <2> QED BY <2>1, <2>2, <1>1
  <1> QED BY <1>1 DEF Loopless

\* The same without anybody joining: destruction and removal.
LEMMA ClearedLoopless ==
    ASSUME NEW par \in [Objects -> Compositions \cup {NULL}], Loopless(par),
           NEW new \in [Objects -> Compositions \cup {NULL}],
           \A x \in Objects : new[x] = NULL \/ new[x] = par[x]
    PROVE  Loopless(new)
  <1>1. ASSUME NEW x \in Objects, new[x] # NULL PROVE x \notin Above(new, new[x])
    <2>1. par[x] = new[x] /\ par[x] \in Objects
      BY <1>1 DEF Objects
    <2> DEFINE B == Above(par, par[x])
    <2>2. par[x] \in B /\ B \in SUBSET Objects /\ Rising(par, B) /\ x \notin B
      BY <2>1, <1>1, AboveFacts DEF Loopless
    <2> HIDE DEF B
    <2>3. Rising(new, B)
      BY <2>2 DEF Rising
    <2> QED BY <2>1, <2>2, <2>3, <1>1, NoLoopAt
  <1> QED BY <1>1 DEF Loopless

\* A climb that never leaves a finite set of objects goes round in it.
LEMMA ClimbEnds ==
    ASSUME KindsAssumption,
           NEW par \in [Objects -> Compositions \cup {NULL}], Loopless(par),
           NEW L \in SUBSET Objects, L # {}, IsFiniteSet(L)
    PROVE  \E x \in L : par[x] \notin L
  <1> SUFFICES ASSUME \A x \in L : par[x] \in L PROVE FALSE
    OBVIOUS
  <1> DEFINE size(x) == Cardinality(Above(par, x))
  <1>1. Rising(par, L)
    BY DEF Rising
  <1>2. ASSUME NEW x \in L
        PROVE  /\ IsFiniteSet(Above(par, x)) /\ size(x) \in Nat
               /\ par[x] \in L /\ size(par[x]) < size(x)
    <2>1. /\ x \in Above(par, x) /\ Above(par, x) \subseteq L
          /\ Rising(par, Above(par, x)) /\ Above(par, x) \in SUBSET Objects
      BY <1>1, AboveFacts
    <2>2. IsFiniteSet(Above(par, x)) /\ size(x) \in Nat
      BY <2>1, FS_Subset, FS_CardinalityType
    <2>3. par[x] \in L /\ par[x] # NULL
      BY KindsAssumption
    <2>4. Above(par, par[x]) \subseteq Above(par, x)
      BY <2>1, <2>3, AboveFacts DEF Rising
    <2>5. x \notin Above(par, par[x])
      BY <2>3 DEF Loopless
    <2>6. size(par[x]) \in Nat /\ size(par[x]) <= size(x) /\ size(par[x]) # size(x)
      BY <2>1, <2>2, <2>4, <2>5, FS_Subset, FS_CardinalityType
    <2> QED BY <2>2, <2>3, <2>6
  <1> HIDE DEF size
  <1> DEFINE N == {size(x) : x \in L}
  <1>3. N \subseteq Nat /\ N # {}
    BY <1>2
  <1>4. \E m \in N : \A n \in N : <<n, m>> \notin SmallerNat
    <2> HIDE DEF N
    <2> QED BY <1>3, SmallerNatIsWellFounded, WFMin, Zenon
  <1>5. PICK x \in L : \A y \in L : <<size(y), size(x)>> \notin SmallerNat
    BY <1>4
  <1>6. par[x] \in L /\ size(par[x]) < size(x) /\ size(x) \in Nat /\ size(par[x]) \in Nat
    BY <1>2
  <1>7. <<size(par[x]), size(x)>> \in SmallerNat
    BY <1>6 DEF SmallerNat
  <1> QED BY <1>5, <1>6, <1>7

--------------------------------------------------------------------------------
(* The inductive invariant.                                                    *)

\* No lookup set claims a stranger, no climb returns, and whatever is alive is
\* held or in a living list.
Fit(ch, cs, par, hd, al) ==
    /\ \A c \in Compositions : cs[c] \subseteq Range(ch[c])
    /\ Loopless(par)
    /\ Kept(ch, hd, al)
    /\ IsFiniteSet(al)

Forested ==
    /\ TypeOK
    /\ WellFormed(children, parent, alive)
    /\ Fit(children, childSet, parent, held, alive)

\* Destruction at the end of a call: what is left is held or in a living list,
\* and no set claims a stranger.
LEMMA SettleFit ==
    ASSUME NEW ch \in [Compositions -> Seq(Objects)],
           NEW cs \in [Compositions -> SUBSET Objects],
           NEW par \in [Objects -> Compositions \cup {NULL}],
           NEW al \in SUBSET Objects, NEW hd \in SUBSET al,
           \A c \in Compositions : cs[c] \subseteq Range(ch[c]),
           Loopless(par), IsFiniteSet(al)
    PROVE  Fit(Blank(ch, Gone(ch, hd, al), <<>>),
               Blank(cs, Gone(ch, hd, al), {}),
               Unlisted(par, ch, Survivors(ch, hd, al), Gone(ch, hd, al)),
               hd, Survivors(ch, hd, al))
  <1> DEFINE live == Survivors(ch, hd, al)
             gone == Gone(ch, hd, al)
             ch1 == Blank(ch, gone, <<>>)
             cs1 == Blank(cs, gone, {})
             par1 == Unlisted(par, ch, live, gone)
  <1>1. live \subseteq al /\ Kept(ch, hd, live)
    BY SurvivorsFacts, Zenon
  <1>2. gone = Compositions \cap (al \ live)
    BY DEF Gone
  <1>3. /\ \A c \in Compositions : ch1[c] = IF c \in gone THEN <<>> ELSE ch[c]
        /\ \A c \in Compositions : cs1[c] = IF c \in gone THEN {} ELSE cs[c]
        /\ \A x \in Objects : par1[x] = NULL \/ par1[x] = par[x]
        /\ par1 \in [Objects -> Compositions \cup {NULL}]
    BY DEF Blank, Unlisted
  <1> HIDE DEF live, gone, ch1, cs1, par1
  <1>4. Kept(ch1, hd, live)
    <2>1. \A c \in live \cap Compositions : ch1[c] = ch[c]
      BY <1>2, <1>3
    <2> QED BY <2>1, <1>1 DEF Kept
  <1>5. IsFiniteSet(live)
    BY <1>1, FS_Subset
  <1>6. \A c \in Compositions : cs1[c] \subseteq Range(ch1[c])
    BY <1>3
  <1>7. Loopless(par1)
    BY <1>3, ClearedLoopless
  <1> QED BY <1>4, <1>5, <1>6, <1>7 DEF Fit, live, gone, ch1, cs1, par1

\* Below a composition is whoever climbs to it: what is_parent_of refuses.
LEMMA ParentIsAbove ==
    ASSUME KindsAssumption, TypeOK, NEW c \in Objects, NEW o \in Objects,
           c # o, ~IsParentOf(o, c)
    PROVE  o \notin Above(parent, c)
  <1>t. parent \in [Objects -> Compositions \cup {NULL}] /\ Compositions \subseteq Objects
    BY DEF TypeOK, Typed, Objects
  <1>1. CASE parent[c] = NULL
    <2>1. Rising(parent, {c})
      BY <1>1 DEF Rising
    <2>2. Above(parent, c) \subseteq {c}
      BY <2>1, <1>t, AboveFacts
    <2> QED BY <2>2
  <1>2. CASE parent[c] # NULL
    <2> DEFINE B == Above(parent, parent[c])
    <2>0. parent[c] \in Objects
      BY <1>2, <1>t
    <2>1. Lineage(parent[c]) = B
      BY Zenon DEF Lineage, Above, Rising
    <2>2. o \notin B /\ parent[c] \in B /\ B \subseteq Objects /\ Rising(parent, B)
      BY <2>0, <2>1, <1>2, <1>t, AboveFacts DEF IsParentOf
    <2> HIDE DEF B
    <2>3. Rising(parent, B \cup {c}) /\ B \cup {c} \in SUBSET Objects
      BY <2>2 DEF Rising
    <2>4. Above(parent, c) \subseteq B \cup {c}
      BY <2>3, <1>t, AboveFacts
    <2> QED BY <2>2, <2>4
  <1> QED BY <1>1, <1>2

\* A copy climbs as its original does, and never into it.
LEMMA CopyForested ==
    ASSUME KindsAssumption, Forested, NEW o \in alive, NEW f \in Copying(o), CopyOf(f, o)
    PROVE  Fit(children', childSet', parent', held', alive')
  <1>t. /\ children \in [Compositions -> Seq(Objects)]
        /\ childSet \in [Compositions -> SUBSET Objects]
        /\ parent \in [Objects -> Compositions \cup {NULL}]
        /\ alive \in SUBSET Objects /\ held \in SUBSET alive /\ TypeOK
        /\ \A c \in Compositions \ alive : children[c] = <<>> /\ childSet[c] = {}
        /\ \A x \in Objects \ alive : parent[x] = NULL
        /\ Compositions \subseteq Objects /\ NULL \notin Objects
    BY KindsAssumption DEF Forested, TypeOK, Typed, Objects
  <1>w. /\ \A c \in Compositions : Range(children[c]) \subseteq alive
        /\ \A c \in Compositions, x \in Objects : x \in Range(children[c]) <=> parent[x] = c
    BY DEF Forested, WellFormed
  <1>e. Range(<<>>) = {}
    BY DEF Range
  <1>k. TypeOK
    BY <1>t
  <1>1. /\ alive' = alive \cup Range(f) /\ held' = held \cup {f[o]} /\ childSet' = childSet
        /\ children' \in [Compositions -> Seq(Objects)]
        /\ parent' \in [Objects -> Compositions \cup {NULL}]
        /\ \A c \in Compositions \ Range(f) : children'[c] = children[c]
        /\ \A y \in Objects \ Range(f) : parent'[y] = parent[y]
        /\ \A d \in Below(o) \cap Compositions :
             /\ Len(children'[f[d]]) = Len(children[d])
             /\ \A i \in 1..Len(children[d]) : children'[f[d]][i] = f[children[d][i]]
        /\ parent'[f[o]] = NULL
        /\ \A x \in Below(o) \ {o} :
             \E d \in Below(o) \cap Compositions : x \in Range(children[d]) /\ parent'[f[x]] = f[d]
    BY <1>k, KindsAssumption, CopyEffect, Zenon
  <1>2. /\ f \in [Below(o) -> Objects \ alive]
        /\ Range(f) \subseteq Objects \ alive
        /\ \A x, y \in Below(o) : f[x] = f[y] => x = y
        /\ \A x \in Below(o) : x \in Compositions <=> f[x] \in Compositions
    BY <1>t, KindsAssumption, CopyingFacts, Zenon
  <1>3. /\ o \in Below(o) /\ Below(o) \subseteq Objects
        /\ \A c \in Below(o) \cap Compositions : Range(children[c]) \subseteq Below(o)
        /\ \A x \in Below(o) \ {o} :
             \E c \in Below(o) \cap Compositions : x \in Range(children[c])
    BY <1>t, BelowFacts, Zenon
  <1>4. Below(o) \subseteq alive
    BY <1>3, <1>w
  <1>5. \A y : y \in Range(f) <=> \E x \in Below(o) : y = f[x]
    BY <1>2 DEF Range
  <1>6. \A x \in Below(o) \ {o} : parent[x] \in Below(o) /\ parent'[f[x]] = f[parent[x]]
    BY <1>1, <1>3, <1>w
  <1>7. ASSUME NEW y \in Objects, parent'[y] # NULL PROVE y \notin Above(parent', parent'[y])
    <2>1. CASE y \in Range(f)
      <3>1. PICK x \in Below(o) : y = f[x]
        BY <2>1, <1>5
      <3>2. x # o /\ parent[x] \in Below(o) /\ parent'[y] = f[parent[x]]
        BY <3>1, <1>1, <1>6, <1>7
      <3> DEFINE B == Above(parent, parent[x])
                 S == {f[z] : z \in B \cap Below(o)}
      <3>3. parent[x] \in B /\ Rising(parent, B) /\ x \notin B
        BY <3>2, <1>3, <1>t, AboveFacts DEF Forested, Fit, Loopless
      <3> HIDE DEF B
      <3>4. S \in SUBSET Objects /\ parent'[y] \in S /\ y \notin S
        BY <3>1, <3>2, <3>3, <1>2, <1>3
      <3>5. ASSUME NEW z \in B \cap Below(o), parent'[f[z]] # NULL PROVE parent'[f[z]] \in S
        <4>1. z # o /\ parent[z] \in Below(o) /\ parent'[f[z]] = f[parent[z]]
          BY <3>5, <1>1, <1>6
        <4>2. parent[z] \in B
          BY <4>1, <3>3, <1>3, <1>t DEF Rising
        <4> QED BY <4>1, <4>2
      <3>6. Rising(parent', S)
        BY <3>5 DEF Rising
      <3> HIDE DEF S
      <3> QED BY <3>4, <3>6, <1>1, <1>7, NoLoopAt
    <2>2. CASE y \notin Range(f)
      <3>1. parent[y] = parent'[y]
        BY <2>2, <1>1
      <3> DEFINE B == Above(parent, parent[y])
      <3>2. /\ parent[y] \in B /\ Rising(parent, B) /\ y \notin B /\ B \subseteq Objects
        BY <3>1, <1>7, <1>t, AboveFacts DEF Forested, Fit, Loopless
      <3> HIDE DEF B
      <3>3. \A z \in Objects : parent[z] # NULL => parent[z] \in alive
        <4>1. \A c \in Compositions : c \notin alive => Range(children[c]) = {}
          BY <1>t, <1>e
        <4> QED BY <4>1, <1>w, <1>t
      <3>4. Rising(parent', B \cap alive)
        <4>1. \A z \in B \cap alive : parent'[z] = parent[z]
          BY <1>1, <1>2, <3>2
        <4> QED BY <4>1, <3>2, <3>3 DEF Rising
      <3>5. parent'[y] \in B \cap alive /\ y \notin B \cap alive /\ B \cap alive \in SUBSET Objects
        BY <3>1, <3>2, <3>3, <1>7
      <3> QED BY <3>4, <3>5, <1>1, <1>7, NoLoopAt
    <2> QED BY <2>1, <2>2
  <1>8. ASSUME NEW x \in alive'
        PROVE  x \in held' \/ \E p \in alive' \cap Compositions : x \in Range(children'[p])
    <2>1. CASE x \in alive
      <3>1. \A p \in alive \cap Compositions : children'[p] = children[p]
        BY <1>1, <1>2
      <3> QED BY <2>1, <3>1, <1>1 DEF Forested, Fit, Kept
    <2>2. CASE x \notin alive
      <3>1. PICK z \in Below(o) : x = f[z]
        BY <2>2, <1>1, <1>5
      <3>2. CASE z = o
        BY <3>1, <3>2, <1>1
      <3>3. CASE z # o
        <4>1. PICK c \in Below(o) \cap Compositions : z \in Range(children[c])
          BY <3>3, <1>3
        <4>2. PICK i \in 1..Len(children[c]) : z = children[c][i]
          BY <4>1, <1>t DEF Range
        <4>3. f[c] \in Compositions /\ f[c] \in alive'
          BY <1>1, <1>2, <1>5
        <4>4. children'[f[c]] \in Seq(Objects)
          BY <4>3, <1>1
        <4>5. x \in Range(children'[f[c]])
          BY <4>2, <4>4, <3>1, <1>1 DEF Range
        <4> QED BY <4>3, <4>5
      <3> QED BY <3>2, <3>3
    <2> QED BY <2>1, <2>2
  <1>9. IsFiniteSet(alive')
    <2>1. IsFiniteSet(alive) /\ IsFiniteSet(Below(o))
      BY <1>4, FS_Subset DEF Forested, Fit
    <2>2. IsFiniteSet(Range(f))
      <3>1. Range(f) = {f[x] : x \in Below(o)}
        BY <1>5
      <3>2. f \in Surjection(Below(o), Range(f))
        BY <1>2, <1>5, <3>1 DEF Surjection
      <3> QED BY <2>1, <3>2, FS_Surjection
    <2> QED BY <2>1, <2>2, <1>1, FS_Union
  <1>10. ASSUME NEW c \in Compositions PROVE childSet'[c] \subseteq Range(children'[c])
    <2>1. CASE c \in Range(f)
      BY <2>1, <1>1, <1>2, <1>t
    <2>2. CASE c \notin Range(f)
      BY <2>2, <1>1 DEF Forested, Fit
    <2> QED BY <2>1, <2>2
  <1>11. Loopless(parent')
    BY <1>7 DEF Loopless
  <1> QED BY <1>8, <1>9, <1>10, <1>11 DEF Fit, Kept

\* A mutator that relists one composition c: the children in T, orphans that c
\* does not climb to, now point to it, and other pointers are kept or cleared.
LEMMA RelistFit ==
    ASSUME KindsAssumption, Forested,
           NEW c \in Compositions, NEW list \in Seq(Objects), NEW set \in SUBSET Objects,
           NEW par \in [Objects -> Compositions \cup {NULL}],
           NEW T \in SUBSET Objects, NEW hd \in SUBSET alive,
           set \subseteq Range(list),
           \A o \in T : parent[o] = NULL /\ o \notin Above(parent, c),
           \A x \in Objects : par[x] = NULL \/ par[x] = parent[x] \/ (x \in T /\ par[x] = c)
    PROVE  LET ch == [children EXCEPT ![c] = list]
               cs == [childSet EXCEPT ![c] = set]
           IN  Fit(Blank(ch, Gone(ch, hd, alive), <<>>),
                   Blank(cs, Gone(ch, hd, alive), {}),
                   Unlisted(par, ch, Survivors(ch, hd, alive), Gone(ch, hd, alive)),
                   hd, Survivors(ch, hd, alive))
  <1> DEFINE ch == [children EXCEPT ![c] = list]
             cs == [childSet EXCEPT ![c] = set]
  <1>1. /\ ch \in [Compositions -> Seq(Objects)] /\ cs \in [Compositions -> SUBSET Objects]
        /\ alive \in SUBSET Objects /\ IsFiniteSet(alive)
        /\ parent \in [Objects -> Compositions \cup {NULL}] /\ Loopless(parent)
        /\ \A d \in Compositions : cs[d] \subseteq Range(ch[d])
    BY DEF Forested, TypeOK, Typed, Fit
  <1> HIDE DEF ch, cs
  <1>2. Loopless(par)
    BY <1>1, JoinLoopless
  <1>3. Fit(Blank(ch, Gone(ch, hd, alive), <<>>),
            Blank(cs, Gone(ch, hd, alive), {}),
            Unlisted(par, ch, Survivors(ch, hd, alive), Gone(ch, hd, alive)),
            hd, Survivors(ch, hd, alive))
    BY <1>1, <1>2, SettleFit
  <1> QED BY <1>3 DEF ch, cs

\* Every step of clients that honour all duties keeps the hierarchy a forest.
LEMMA ForestedStep ==
    ASSUME KindsAssumption, ArgumentsAssumption, Obligations = Duties, Forested, [Next]_vars
    PROVE  Forested'
  <1> DEFINE Rest == Fit(children', childSet', parent', held', alive')
  <1>y. {"replace_empty", "distinct", "in_range", "no_cycle"} \subseteq Obligations
    BY DEF Duties
  <1>k. TypeOK /\ WellFormed(children, parent, alive) /\ TypeOK'
    BY TypeStep, KindsAssumption, ArgumentsAssumption DEF Forested
  <1>v. WellFormed(children', parent', alive')
    BY <1>k, <1>y, WellFormedStep, KindsAssumption, ArgumentsAssumption
  <1>t. /\ children \in [Compositions -> Seq(Objects)]
        /\ childSet \in [Compositions -> SUBSET Objects]
        /\ parent \in [Objects -> Compositions \cup {NULL}]
        /\ alive \in SUBSET Objects /\ held \in SUBSET alive
        /\ parent' \in [Objects -> Compositions \cup {NULL}]
        /\ Compositions \subseteq Objects /\ NULL \notin Objects
    BY <1>k, KindsAssumption DEF TypeOK, Typed, Objects
  <1>w. /\ \A c \in Compositions : IsInjective(children[c]) /\ Range(children[c]) \subseteq alive
        /\ \A c \in Compositions, o \in Objects : o \in Range(children[c]) <=> parent[o] = c
    BY <1>k DEF WellFormed
  <1>s. /\ \A c \in Compositions : childSet[c] \subseteq Range(children[c])
        /\ Kept(children, held, alive) /\ IsFiniteSet(alive) /\ Loopless(parent)
    BY DEF Forested, Fit
  <1>e. <<>> \in Seq(Objects) /\ Range(<<>>) = {} /\ {} \subseteq Objects
    BY DEF Range
  <1>r. ASSUME NEW st, Return(st) PROVE Rest
    BY <1>r, <1>s DEF Return, Fit
  <1>1. ASSUME NEW o \in Objects, New(o) PROVE Rest
    <2>1. IsFiniteSet(alive')
      BY <1>1, <1>s, FS_AddElement DEF New
    <2>2. Kept(children', held', alive')
      BY <1>1, <1>s DEF New, Kept
    <2> QED BY <2>1, <2>2, <1>1, <1>s DEF New, Fit
  <1>2. ASSUME NEW o \in Objects, Retain(o) PROVE Rest
    BY <1>2, <1>s DEF Retain, Fit, Kept
  <1>3. ASSUME NEW o \in Objects, Release(o) PROVE Rest
    <2>1. held \ {o} \in SUBSET alive /\ Settle(children, childSet, parent, held \ {o}, alive)
      BY <1>3, <1>t DEF Release
    <2> QED BY <2>1, <1>t, <1>s, SettleFit DEF Settle
  <1>4. ASSUME NEW o \in Objects, Clone(o) PROVE Rest
    <2>1. CASE Return("OBJECT_CYCLE")
      BY <2>1, <1>r
    <2>2. CASE \E f \in Copying(o) : CopyOf(f, o)
      <3>1. o \in alive
        BY <1>4 DEF Clone
      <3> QED BY <2>2, <3>1, CopyForested, KindsAssumption
    <2> QED BY <1>4, <2>1, <2>2 DEF Clone
  <1>5. ASSUME NEW c \in Compositions, ClearChildren(c) PROVE Rest
    <2> DEFINE par == [o \in Objects |-> IF o \in Range(children[c]) THEN NULL ELSE parent[o]]
    <2>1. Settle([children EXCEPT ![c] = <<>>], [childSet EXCEPT ![c] = {}], par, held, alive)
      BY <1>5 DEF ClearChildren
    <2>2. \A x \in Objects : par[x] = NULL \/ par[x] = parent[x] \/ (x \in {} /\ par[x] = c)
      OBVIOUS
    <2>p. par \in [Objects -> Compositions \cup {NULL}]
      BY <1>t
    <2> HIDE DEF par
    <2> QED BY <2>1, <2>2, <2>p, <1>t, <1>e, <1>k, RelistFit DEF Settle
  <1>6. ASSUME NEW c \in Compositions, NEW list \in Lists, SetChildren(c, list) PROVE Rest
    <2>1. CASE Return("CHILD_ALREADY_PARENTED")
      BY <2>1, <1>r
    <2>2. CASE ~Return("CHILD_ALREADY_PARENTED")
      <3> DEFINE par == [o \in Objects |-> IF o \in Range(list) THEN c ELSE parent[o]]
      <3>1. /\ Settle([children EXCEPT ![c] = list], [childSet EXCEPT ![c] = Range(list)],
                      par, held, alive)
            /\ \A o \in Range(list) : parent[o] = NULL /\ o # c /\ ~IsParentOf(o, c)
            /\ Range(list) \subseteq alive
        BY <2>2, <1>6, <1>y DEF SetChildren, Honours, Orphan
      <3>2. \A x \in Objects :
              par[x] = NULL \/ par[x] = parent[x] \/ (x \in Range(list) /\ par[x] = c)
        OBVIOUS
      <3>p. par \in [Objects -> Compositions \cup {NULL}]
        BY <1>t
      <3>3. \A o \in Range(list) : parent[o] = NULL /\ o \notin Above(parent, c)
        BY <3>1, <1>t, <1>k, ParentIsAbove, KindsAssumption
      <3>4. list \in Seq(Objects) /\ Range(list) \in SUBSET Objects
        BY <3>1, <1>t, ArgumentsAssumption
      <3> HIDE DEF par
      <3> QED BY <3>1, <3>2, <3>3, <3>4, <3>p, <1>t, <1>k, RelistFit DEF Settle
    <2> QED BY <2>1, <2>2
  <1>7. ASSUME NEW c \in Compositions, NEW i \in Indices, NEW o \in Objects, InsertChild(c, i, o)
        PROVE  Rest
    <2>1. CASE Return("CHILD_ALREADY_PARENTED")
      BY <2>1, <1>r
    <2>2. CASE ~Return("CHILD_ALREADY_PARENTED")
      <3> DEFINE list == InsertAt(children[c], InsertSlot(i, children[c]), o)
                 set == childSet[c] \cup {o}
                 par == [parent EXCEPT ![o] = c]
                 T == {o}
      <3>1. /\ Settle([children EXCEPT ![c] = list], [childSet EXCEPT ![c] = set],
                      par, held, alive)
            /\ parent[o] = NULL /\ o # c /\ ~IsParentOf(o, c)
        BY <2>2, <1>7, <1>y DEF InsertChild, Honours, Orphan
      <3>2. list \in Seq(Objects) /\ Range(list) = Range(children[c]) \cup {o}
        <4>1. /\ children[c] \in Seq(Objects)
              /\ InsertSlot(i, children[c]) \in 1..(Len(children[c]) + 1)
          BY <1>t, SlotFacts, ArgumentsAssumption
        <4> QED BY <4>1, InsertAtElements
      <3>3. set \in SUBSET Objects /\ set \subseteq Range(list)
        BY <3>2, <1>s, <1>t
      <3>4. \A x \in Objects : par[x] = NULL \/ par[x] = parent[x] \/ (x \in T /\ par[x] = c)
        BY <1>t
      <3>p. par \in [Objects -> Compositions \cup {NULL}]
        BY <1>t
      <3>5. T \in SUBSET Objects /\ \A x \in T : parent[x] = NULL /\ x \notin Above(parent, c)
        BY <3>1, <1>t, <1>k, ParentIsAbove, KindsAssumption
      <3> HIDE DEF list, set, par, T
      <3> QED BY <3>1, <3>2, <3>3, <3>4, <3>5, <3>p, <1>t, <1>k, RelistFit DEF Settle
    <2> QED BY <2>1, <2>2
  <1>8. ASSUME NEW c \in Compositions, NEW i \in Indices, NEW o \in Objects, SetChild(c, i, o)
        PROVE  Rest
    <2>1. CASE \E st \in Statuses : Return(st)
      BY <2>1, <1>r
    <2>2. CASE ~\E st \in Statuses : Return(st)
      <3> DEFINE slot == Adjusted(i, children[c]) + 1
                 old == children[c][slot]
                 list == ReplaceAt(children[c], slot, o)
                 set == (childSet[c] \ {old}) \cup {o}
                 par == [parent EXCEPT ![old] = NULL, ![o] = c]
                 T == {o}
      <3>1. /\ Settle([children EXCEPT ![c] = list], [childSet EXCEPT ![c] = set],
                      par, held, alive)
            /\ parent[o] = NULL /\ o # c /\ ~IsParentOf(o, c) /\ InList(i, children[c])
        BY <2>2, <1>8, <1>y DEF SetChild, Honours, Orphan, Statuses
      <3>2. children[c] \in Seq(Objects) /\ slot \in 1..Len(children[c]) /\ IsInjective(children[c])
        BY <3>1, <1>t, <1>w, SlotFacts, ArgumentsAssumption
      <3>3. o \notin Range(children[c])
        BY <3>1, <1>w, <1>t
      <3> HIDE DEF slot
      <3>4. list \in Seq(Objects) /\ Range(list) = (Range(children[c]) \ {old}) \cup {o}
        BY <3>2, <3>3, ReplaceAtElements
      <3>5. set \in SUBSET Objects /\ set \subseteq Range(list)
        BY <3>4, <1>s, <1>t
      <3> HIDE DEF list, old
      <3>6. \A x \in Objects : par[x] = NULL \/ par[x] = parent[x] \/ (x \in T /\ par[x] = c)
        BY <1>t
      <3>p. par \in [Objects -> Compositions \cup {NULL}]
        BY <1>t
      <3>7. T \in SUBSET Objects /\ \A x \in T : parent[x] = NULL /\ x \notin Above(parent, c)
        BY <3>1, <1>t, <1>k, ParentIsAbove, KindsAssumption
      <3> HIDE DEF set, par, T
      <3> QED BY <3>1, <3>4, <3>5, <3>6, <3>7, <3>p, <1>t, <1>k, RelistFit DEF Settle
    <2> QED BY <2>1, <2>2
  <1>9. ASSUME NEW c \in Compositions, NEW i \in Indices, RemoveChild(c, i) PROVE Rest
    <2>1. CASE Return("ILLEGAL_INDEX")
      BY <2>1, <1>r
    <2>2. CASE ~Return("ILLEGAL_INDEX")
      <3> DEFINE slot == Adjusted(i, children[c]) + 1
                 old == children[c][slot]
                 list == RemoveAt(children[c], slot)
                 set == childSet[c] \ {old}
                 par == [parent EXCEPT ![old] = NULL]
      <3>1. RemoveAtSlot(c, slot) /\ InList(i, children[c])
        BY <2>2, <1>9, <1>y DEF RemoveChild, Honours
      <3>2. Settle([children EXCEPT ![c] = list], [childSet EXCEPT ![c] = set],
                   par, held, alive)
        BY <3>1 DEF RemoveAtSlot
      <3>3. children[c] \in Seq(Objects) /\ slot \in 1..Len(children[c])
        BY <3>1, <1>t, SlotFacts, ArgumentsAssumption
      <3> HIDE DEF slot
      <3>4. list \in Seq(Objects) /\ Range(children[c]) \ {old} \subseteq Range(list)
        BY <3>3, RemoveAtElements
      <3>5. set \in SUBSET Objects /\ set \subseteq Range(list)
        BY <3>4, <1>s, <1>t
      <3> HIDE DEF list, old
      <3>6. \A x \in Objects : par[x] = NULL \/ par[x] = parent[x] \/ (x \in {} /\ par[x] = c)
        BY <1>t
      <3>p. par \in [Objects -> Compositions \cup {NULL}]
        BY <1>t
      <3> HIDE DEF set, par
      <3> QED BY <3>2, <3>4, <3>5, <3>6, <1>e, <3>p, <1>t, <1>k, RelistFit DEF Settle
    <2> QED BY <2>1, <2>2
  <1>10. ASSUME UNCHANGED vars PROVE Rest
    BY <1>10, <1>s DEF vars, Fit
  <1>11. Rest
    BY <1>1, <1>2, <1>3, <1>4, <1>5, <1>6, <1>7, <1>8, <1>9, <1>10 DEF Next
  <1> QED BY <1>11, <1>k, <1>v DEF Forested

--------------------------------------------------------------------------------
(* What clients read.                                                          *)

LEMMA ForestedMeans ==
    ASSUME KindsAssumption, Forested
    PROVE  HierarchySound
  <1>t. /\ children \in [Compositions -> Seq(Objects)]
        /\ childSet \in [Compositions -> SUBSET Objects]
        /\ parent \in [Objects -> Compositions \cup {NULL}]
        /\ alive \in SUBSET Objects /\ held \in SUBSET alive
        /\ \A c \in Compositions \ alive : children[c] = <<>>
        /\ Compositions \subseteq Objects /\ NULL \notin Objects
    BY KindsAssumption DEF Forested, TypeOK, Typed, Objects
  <1>w. /\ \A c \in Compositions : IsInjective(children[c])
        /\ \A c \in Compositions, o \in Objects : o \in Range(children[c]) <=> parent[o] = c
    BY DEF Forested, WellFormed
  <1>f. /\ \A c \in Compositions : childSet[c] \subseteq Range(children[c])
        /\ Kept(children, held, alive) /\ IsFiniteSet(alive) /\ Loopless(parent)
    BY DEF Forested, Fit
  <1>l. \A o : Lineage(o) = Above(parent, o)
    BY Zenon DEF Lineage, Above, Rising
  <1>1. NoFalseMember
    <2>1. ASSUME NEW c \in alive \cap Compositions, NEW o \in Objects, HasChild(c, o)
          PROVE  IndexOfChild(c, o) # 0
      <3>1. o \in Range(children[c]) /\ children[c] \in Seq(Objects) /\ IsInjective(children[c])
        BY <2>1, <1>t, <1>w, <1>f DEF HasChild
      <3>2. PICK i \in 1..Len(children[c]) : children[c][i] = o
        BY <3>1 DEF Range
      <3>3. \A j \in 1..(i - 1) : children[c][j] # o
        BY <3>1, <3>2 DEF IsInjective
      <3>4. IndexOfChild(c, o) \in 1..Len(children[c])
        BY <3>1, <3>2, <3>3 DEF IndexOfChild
      <3> QED BY <3>4
    <2> QED BY <2>1 DEF NoFalseMember
  <1>2. Acyclic
    BY <1>f, <1>l, <1>t DEF Acyclic, Orphan, Loopless
  <1>3. ASSUME NEW o \in alive, Lineage(o) \cap held = {} PROVE FALSE
    <2> DEFINE L == Above(parent, o)
    <2>1. o \in L /\ L \subseteq Objects /\ Rising(parent, L)
      BY <1>t, AboveFacts
    <2>2. L \subseteq alive
      <3>1. Rising(parent, alive)
        <4>1. \A c \in Compositions : c \notin alive => Range(children[c]) = {}
          BY <1>t DEF Range
        <4> QED BY <4>1, <1>w, <1>t DEF Rising
      <3> QED BY <3>1, <1>t, AboveFacts
    <2>3. ASSUME NEW x \in L PROVE parent[x] \in L
      <3>1. x \in alive /\ x \notin held
        BY <2>2, <1>3, <1>l
      <3>2. PICK p \in alive \cap Compositions : x \in Range(children[p])
        BY <3>1, <1>f DEF Kept
      <3>3. parent[x] = p /\ p # NULL
        BY <3>1, <3>2, <1>w, <1>t
      <3> QED BY <3>3, <2>1 DEF Rising
    <2>4. IsFiniteSet(L)
      BY <2>2, <1>f, FS_Subset
    <2> HIDE DEF L
    <2> QED BY <2>1, <2>3, <2>4, <1>f, <1>t, ClimbEnds, KindsAssumption
  <1>4. NoLeak
    BY <1>3 DEF NoLeak
  <1> QED BY <1>1, <1>2, <1>4 DEF HierarchySound

LEMMA InitForested == KindsAssumption /\ Init => Forested
  <1> SUFFICES ASSUME KindsAssumption, Init PROVE Forested
    OBVIOUS
  <1>1. Range(<<>>) = {} /\ IsInjective(<<>>)
    BY DEF Range, IsInjective
  <1>2. TypeOK
    BY EmptySeq DEF Init, TypeOK, Typed, Statuses
  <1>3. WellFormed(children, parent, alive)
    BY <1>1, KindsAssumption DEF Init, WellFormed, Objects
  <1>4. IsFiniteSet(alive)
    BY FS_EmptySet DEF Init
  <1>5. Loopless(parent)
    BY DEF Init, Loopless
  <1> QED BY <1>2, <1>3, <1>4, <1>5 DEF Init, Forested, Fit, Kept

\* For clients that honour every duty, in every reachable state: the lookup sets
\* claim nothing that the lists do not hold, no object is above itself, and what
\* is alive is held by a client or sits below something that is.  However many
\* objects there are, and however deep they are nested (remove_child,
\* is_parent_of, possibly_delete, ~Composition).
THEOREM HierarchyIsSound ==
    ASSUME Obligations = Duties
    PROVE  Spec => []HierarchySound
  <1>1. Init => Forested
    BY InitForested, KindsAssumption
  <1>2. Forested /\ [Next]_vars => Forested'
    BY ForestedStep, KindsAssumption, ArgumentsAssumption
  <1>3. Forested => HierarchySound
    BY ForestedMeans, KindsAssumption
  <1> QED BY <1>1, <1>2, <1>3, PTL DEF Spec

\* A call that returns an error has left every list, set, pointer and count as it
\* was, whatever the clients do: each mutator checks before it changes, and
\* clone() finds a cycle before it has built anything.
THEOREM RefusalsAreClean ==
    Spec => RefusalIsClean
  <1> DEFINE Clean == status' # "OK" => UNCHANGED <<children, childSet, parent, held, alive>>
  <1>r. ASSUME NEW st, Return(st) PROVE Clean
    BY <1>r DEF Return
  <1>1. ASSUME Next PROVE Clean
    <2>1. ASSUME NEW o \in Objects, New(o) \/ Retain(o) \/ Release(o) PROVE Clean
      BY <2>1 DEF New, Retain, Release
    <2>2. ASSUME NEW o \in Objects, Clone(o) PROVE Clean
      BY <2>2, <1>r DEF Clone
    <2>3. ASSUME NEW c \in Compositions, ClearChildren(c) PROVE Clean
      BY <2>3 DEF ClearChildren
    <2>4. ASSUME NEW c \in Compositions, NEW list \in Lists, SetChildren(c, list) PROVE Clean
      BY <2>4, <1>r DEF SetChildren
    <2>5. ASSUME NEW c \in Compositions, NEW i \in Indices, RemoveChild(c, i) PROVE Clean
      BY <2>5, <1>r DEF RemoveChild, RemoveAtSlot, RemoveOutside
    <2>6. ASSUME NEW c \in Compositions, NEW i \in Indices, NEW o \in Objects,
                 InsertChild(c, i, o) \/ SetChild(c, i, o)
          PROVE  Clean
      BY <2>6, <1>r DEF InsertChild, SetChild
    <2> QED BY <1>1, <2>1, <2>2, <2>3, <2>4, <2>5, <2>6 DEF Next
  <1>2. [Next]_vars => [Clean]_vars
    BY <1>1
  <1> HIDE DEF Clean
  <1>3. Spec => [][Clean]_vars
    BY <1>2, PTL DEF Spec
  <1> QED BY <1>3 DEF RefusalIsClean, Clean

--------------------------------------------------------------------------------
(* Composition implements Forest: each call is an edit of the forest after     *)
(* which the trees nobody holds are gone.                                      *)

\* What reference counting leaves is what can be reached from the clients'
\* Retainers: an object that only keeps itself alive would be on a cycle.
LEMMA SurvivorsAreReached ==
    ASSUME KindsAssumption,
           NEW ch \in [Compositions -> Seq(Objects)],
           NEW al \in SUBSET Objects, IsFiniteSet(al), NEW hd \in SUBSET al,
           \A c \in Compositions : Range(ch[c]) \subseteq al,
           NEW par \in [Objects -> Compositions \cup {NULL}], Loopless(par),
           \A c \in Survivors(ch, hd, al) \cap Compositions, o \in Objects :
              o \in Range(ch[c]) => par[o] = c
    PROVE  Survivors(ch, hd, al) = F!Reach(ch, hd)
  <1> DEFINE live == Survivors(ch, hd, al)
             Closed(S) == \A c \in S \cap Compositions : Range(ch[c]) \subseteq S
             R == F!Reach(ch, hd)
             left == live \ R
  <1>1. /\ live \subseteq al /\ hd \subseteq live /\ Kept(ch, hd, live)
        /\ \A c \in live \cap Compositions : Range(ch[c]) \cap al \subseteq live
    BY SurvivorsFacts, Zenon
  <1>2. \A x : x \in R <=>
               x \in Objects /\ \A S \in SUBSET Objects : hd \subseteq S /\ Closed(S) => x \in S
    BY Zenon DEF F!Reach, F!Objects, Objects, F!Range, Range
  <1>3. \A c \in live \cap Compositions, o \in Objects : o \in Range(ch[c]) => par[o] = c
    OBVIOUS
  <1> HIDE DEF live, R
  <1>4. R \subseteq live
    <2>1. live \in SUBSET Objects /\ hd \subseteq live /\ Closed(live)
      BY <1>1
    <2> HIDE DEF Closed
    <2> QED BY <2>1, <1>2
  <1>5. hd \subseteq R
    BY <1>2
  <1>6. ASSUME NEW p \in R \cap Compositions PROVE Range(ch[p]) \subseteq R
    <2>1. ASSUME NEW x \in Range(ch[p]), NEW S \in SUBSET Objects, hd \subseteq S, Closed(S)
          PROVE  x \in S
      <3>1. p \in S
        <4> HIDE DEF Closed
        <4> QED BY <2>1, <1>2
      <3> QED BY <2>1, <3>1
    <2>2. Range(ch[p]) \subseteq Objects
      OBVIOUS
    <2> HIDE DEF Closed
    <2> QED BY <2>1, <2>2, <1>2
  <1>7. ASSUME NEW x \in left PROVE par[x] \in left
    <2>1. x \in live /\ x \notin R /\ x \notin hd
      BY <1>5
    <2>2. PICK p \in live \cap Compositions : x \in Range(ch[p])
      BY <2>1, <1>1 DEF Kept
    <2>3. p \notin R
      BY <2>1, <2>2, <1>6
    <2>4. par[x] = p
      BY <2>1, <2>2, <1>1, <1>3
    <2> QED BY <2>2, <2>3, <2>4
  <1>8. left \in SUBSET Objects /\ IsFiniteSet(left)
    BY <1>1, FS_Subset
  <1> HIDE DEF left
  <1>9. left = {}
    BY <1>7, <1>8, ClimbEnds, KindsAssumption
  <1> QED BY <1>4, <1>9 DEF left, live, R

\* The end of a call is what Forest calls pruning.
LEMMA SettlePrunes ==
    ASSUME KindsAssumption, Forested, Forested',
           NEW ch \in [Compositions -> Seq(Objects)], NEW hd \in SUBSET alive,
           \A c \in Compositions : Range(ch[c]) \subseteq alive,
           \A c \in Compositions \ alive : ch[c] = <<>>,
           children' = Blank(ch, Gone(ch, hd, alive), <<>>),
           alive' = Survivors(ch, hd, alive), held' = hd
    PROVE  /\ held' = hd
           /\ alive' = F!Reach(ch, hd)
           /\ children' = [c \in Compositions |-> IF c \in F!Reach(ch, hd) THEN ch[c] ELSE <<>>]
  <1> DEFINE live == Survivors(ch, hd, alive)
  <1>1. /\ alive \in SUBSET Objects /\ IsFiniteSet(alive)
        /\ parent' \in [Objects -> Compositions \cup {NULL}] /\ Loopless(parent')
        /\ \A c \in Compositions, o \in Objects : o \in Range(children'[c]) <=> parent'[o] = c
    BY DEF Forested, TypeOK, Typed, Fit, WellFormed
  <1>2. Gone(ch, hd, alive) = Compositions \cap (alive \ live)
    BY DEF Gone
  <1>3. \A c \in Compositions : children'[c] = IF c \in alive \ live THEN <<>> ELSE ch[c]
    BY <1>2 DEF Blank
  <1>4. \A c \in live \cap Compositions, o \in Objects : o \in Range(ch[c]) => parent'[o] = c
    BY <1>1, <1>3
  <1>5. live = F!Reach(ch, hd)
    <2>1. PICK par : par = parent'
      OBVIOUS
    <2>2. par \in [Objects -> Compositions \cup {NULL}] /\ Loopless(par)
      BY <1>1, <2>1 DEF Loopless
    <2>3. \A c \in live \cap Compositions, o \in Objects : o \in Range(ch[c]) => par[o] = c
      BY <1>4, <2>1
    <2>4. /\ ch \in [Compositions -> Seq(Objects)]
          /\ alive \in SUBSET Objects /\ IsFiniteSet(alive) /\ hd \in SUBSET alive
          /\ \A c \in Compositions : Range(ch[c]) \subseteq alive
      BY <1>1
    <2> QED BY ONLY <2>2, <2>3, <2>4, SurvivorsAreReached, KindsAssumption
  <1>6. live \subseteq alive
    BY <1>1, SurvivorsFacts, Zenon
  <1> HIDE DEF live
  <1>7. alive' = live
    BY DEF live
  <1>8. children' = [c \in Compositions |-> children'[c]]
    BY DEF Blank
  <1>9. ASSUME NEW c \in Compositions
        PROVE  children'[c] = IF c \in live THEN ch[c] ELSE <<>>
    BY <1>3, <1>6
  <1>10. children' = [c \in Compositions |-> IF c \in live THEN ch[c] ELSE <<>>]
    BY <1>8, <1>9, Zenon
  <1> QED BY <1>5, <1>7, <1>10

\* The tree of Forest is what a composition holds.
LEMMA TreeIsBelow == \A o : F!Tree(o) = Below(o)
  <1>1. \A o : \A S : {o} \subseteq S <=> o \in S
    OBVIOUS
  <1> QED BY <1>1, Zenon DEF F!Tree, F!Reach, F!Objects, Below, Objects, F!Range, Range

\* An orphan that is no ancestor of c may be put into c.
LEMMA MayJoinForest ==
    ASSUME KindsAssumption, Forested, NEW c \in Compositions, NEW o \in alive,
           parent[o] = NULL, o \notin Above(parent, c)
    PROVE  F!MayJoin(o, c)
  <1>t. /\ children \in [Compositions -> Seq(Objects)]
        /\ parent \in [Objects -> Compositions \cup {NULL}]
        /\ alive \in SUBSET Objects /\ Compositions \subseteq Objects /\ NULL \notin Objects
        /\ \A d \in Compositions, x \in Objects : x \in Range(children[d]) <=> parent[x] = d
    BY KindsAssumption DEF Forested, TypeOK, Typed, WellFormed, Objects
  <1>1. F!Free(o)
    BY <1>t DEF F!Free, F!Range, Range
  <1> DEFINE S == {x \in Objects : o \in Above(parent, x)}
  <1>2. o \in S /\ c \notin S /\ S \in SUBSET Objects
    BY <1>t, AboveFacts
  <1>3. ASSUME NEW d \in S \cap Compositions, NEW x \in Range(children[d]) PROVE x \in S
    <2>1. x \in Objects /\ parent[x] = d /\ d # NULL
      BY <1>t DEF Range
    <2>2. d \in Above(parent, x)
      BY <2>1, <1>t, AboveFacts DEF Rising
    <2>3. Above(parent, d) \subseteq Above(parent, x)
      BY <2>1, <2>2, <1>t, AboveFacts
    <2> QED BY <2>1, <2>3
  <1> HIDE DEF S
  <1>4. c \notin Below(o)
    <2>1. \A d \in S \cap Compositions : Range(children[d]) \subseteq S
      BY <1>3
    <2> QED BY <2>1, <1>2, Zenon DEF Below
  <1> QED BY <1>1, <1>4, TreeIsBelow DEF F!MayJoin

\* The operators that Forest takes from the library are those of Composition.
LEMMA SameOperators ==
    /\ \A s : F!Range(s) = Range(s) /\ (F!IsInjective(s) <=> IsInjective(s))
    /\ \A s, i, e : /\ F!InsertAt(s, i, e) = InsertAt(s, i, e)
                    /\ F!ReplaceAt(s, i, e) = ReplaceAt(s, i, e)
    /\ \A s, i : F!RemoveAt(s, i) = RemoveAt(s, i)
    /\ F!Objects = Objects
  <1>1. \A s : F!Range(s) = Range(s) /\ (F!IsInjective(s) <=> IsInjective(s))
    BY DEF F!Range, Range, F!IsInjective, IsInjective
  <1>2. \A s, i, e : F!InsertAt(s, i, e) = InsertAt(s, i, e)
    BY DEF F!InsertAt, InsertAt
  <1>3. \A s, i, e : F!ReplaceAt(s, i, e) = ReplaceAt(s, i, e)
    BY DEF F!ReplaceAt, ReplaceAt
  <1>4. \A s, i : F!RemoveAt(s, i) = RemoveAt(s, i)
    BY DEF F!RemoveAt, RemoveAt
  <1> QED BY <1>1, <1>2, <1>3, <1>4 DEF F!Objects, Objects

\* A mutator that relists c is a change of the forest.
LEMMA RelistChanges ==
    ASSUME KindsAssumption, Forested, Forested',
           NEW c \in alive \cap Compositions,
           NEW list \in Seq(Objects), Range(list) \subseteq alive,
           children' = Blank([children EXCEPT ![c] = list],
                             Gone([children EXCEPT ![c] = list], held, alive), <<>>),
           alive' = Survivors([children EXCEPT ![c] = list], held, alive), held' = held
    PROVE  F!Change(c, list)
  <1> DEFINE ch == [children EXCEPT ![c] = list]
  <1>1. /\ children \in [Compositions -> Seq(Objects)] /\ held \in SUBSET alive
        /\ \A d \in Compositions \ alive : children[d] = <<>>
        /\ \A d \in Compositions : Range(children[d]) \subseteq alive
    BY DEF Forested, TypeOK, Typed, WellFormed
  <1>2. /\ ch \in [Compositions -> Seq(Objects)]
        /\ \A d \in Compositions \ alive : ch[d] = <<>>
        /\ \A d \in Compositions : Range(ch[d]) \subseteq alive
    BY <1>1
  <1>3. /\ children' = Blank(ch, Gone(ch, held, alive), <<>>)
        /\ alive' = Survivors(ch, held, alive)
    OBVIOUS
  <1> HIDE DEF ch
  <1>4. /\ alive' = F!Reach(ch, held)
        /\ children' = [d \in Compositions |-> IF d \in F!Reach(ch, held) THEN ch[d] ELSE <<>>]
    BY <1>1, <1>2, <1>3, SettlePrunes, KindsAssumption
  <1> QED BY <1>4 DEF F!Change, F!Prune, ch

LEMMA ForestStep ==
    ASSUME KindsAssumption, ArgumentsAssumption, Obligations = Duties,
           Forested, Forested', Next
    PROVE  F!Next \/ UNCHANGED <<children, alive, held>>
  <1> DEFINE Edit == F!Next \/ UNCHANGED <<children, alive, held>>
  <1>y. {"replace_empty", "distinct", "in_range", "no_cycle"} \subseteq Obligations
    BY DEF Duties
  <1>k. TypeOK
    BY DEF Forested
  <1>t. /\ children \in [Compositions -> Seq(Objects)]
        /\ parent \in [Objects -> Compositions \cup {NULL}]
        /\ alive \in SUBSET Objects /\ held \in SUBSET alive
        /\ \A c \in Compositions \ alive : children[c] = <<>>
        /\ Compositions \subseteq Objects /\ NULL \notin Objects
    BY KindsAssumption DEF Forested, TypeOK, Typed, Objects
  <1>w. /\ \A c \in Compositions : IsInjective(children[c]) /\ Range(children[c]) \subseteq alive
        /\ \A c \in Compositions, o \in Objects : o \in Range(children[c]) <=> parent[o] = c
    BY DEF Forested, WellFormed
  <1>r. ASSUME NEW st, Return(st) PROVE Edit
    BY <1>r DEF Return
  <1>1. ASSUME NEW o \in Objects, New(o) PROVE Edit
    <2>1. F!Create(o)
      BY <1>1 DEF New, F!Create
    <2> QED BY <2>1, SameOperators DEF F!Next
  <1>2. ASSUME NEW o \in Objects, Retain(o) PROVE Edit
    <2>1. F!Hold(o)
      BY <1>2 DEF Retain, F!Hold
    <2> QED BY <2>1, SameOperators DEF F!Next
  <1>3. ASSUME NEW o \in Objects, Release(o) PROVE Edit
    <2> DEFINE hd == held \ {o}
    <2>1. /\ o \in held /\ hd \in SUBSET alive /\ held' = hd
          /\ children' = Blank(children, Gone(children, hd, alive), <<>>)
          /\ alive' = Survivors(children, hd, alive)
      BY <1>3, <1>t DEF Release, Settle
    <2> HIDE DEF hd
    <2>2. /\ \A c \in Compositions : Range(children[c]) \subseteq alive
          /\ \A c \in Compositions \ alive : children[c] = <<>>
          /\ children \in [Compositions -> Seq(Objects)]
      BY <1>t, <1>w
    <2>3. /\ alive' = F!Reach(children, hd)
          /\ children' = [c \in Compositions |-> IF c \in F!Reach(children, hd) THEN children[c] ELSE <<>>]
      BY <2>1, <2>2, SettlePrunes, KindsAssumption
    <2>4. F!Drop(o)
      BY <2>1, <2>3 DEF F!Drop, F!Prune, hd
    <2> QED BY <2>4, SameOperators DEF F!Next
  <1>4. ASSUME NEW o \in Objects, Clone(o) PROVE Edit
    <2>1. CASE Return("OBJECT_CYCLE")
      BY <2>1, <1>r
    <2>2. CASE \E f \in Copying(o) : CopyOf(f, o)
      <3>1. o \in alive
        BY <1>4 DEF Clone
      <3>2. PICK f \in Copying(o) : CopyOf(f, o)
        BY <2>2
      <3>3. /\ alive' = alive \cup Range(f) /\ held' = held \cup {f[o]}
            /\ children' \in [Compositions -> Seq(Objects)]
            /\ \A c \in Compositions \ Range(f) : children'[c] = children[c]
            /\ \A d \in Below(o) \cap Compositions :
                 /\ Len(children'[f[d]]) = Len(children[d])
                 /\ \A i \in 1..Len(children[d]) : children'[f[d]][i] = f[children[d][i]]
        BY <3>1, <3>2, <1>k, KindsAssumption, CopyEffect, Zenon
      <3>4. /\ f \in [Below(o) -> Objects \ alive]
            /\ \A x, y \in Below(o) : f[x] = f[y] => x = y
            /\ \A x \in Below(o) : x \in Compositions <=> f[x] \in Compositions
        BY <3>2, <1>k, KindsAssumption, CopyingFacts, Zenon
      <3>5. IsInjective(f)
        BY <3>4 DEF IsInjective
      <3>6. ASSUME NEW c \in Compositions
            PROVE  \/ c \notin Range(f) /\ children'[c] = children[c]
                   \/ \E d \in Below(o) \cap Compositions :
                        /\ c = f[d]
                        /\ children'[c] = [i \in 1..Len(children[d]) |-> f[children[d][i]]]
        <4>1. CASE c \in Range(f)
          <5>1. PICK d \in Below(o) \cap Compositions : c = f[d]
            BY <4>1, <3>4 DEF Range
          <5>2. /\ children'[c] \in Seq(Objects) /\ Len(children'[c]) = Len(children[d])
                /\ \A i \in 1..Len(children[d]) : children'[c][i] = f[children[d][i]]
            BY <5>1, <3>3
          <5>3. children'[c] = [i \in 1..Len(children[d]) |-> f[children[d][i]]]
            BY <5>2
          <5> QED BY <5>1, <5>3
        <4>2. CASE c \notin Range(f)
          BY <4>2, <3>3
        <4> QED BY <4>1, <4>2
      <3>7. F!Copy(o)
        <4>1. F!Tree(o) = Below(o)
          BY TreeIsBelow
        <4>2. F!Objects = Objects /\ F!Range(f) = Range(f) /\ F!IsInjective(f)
          BY <3>5, SameOperators
        <4>3. f \in [F!Tree(o) -> F!Objects \ alive] /\ children' \in [Compositions -> Seq(F!Objects)]
          BY <4>1, <4>2, <3>3, <3>4
        <4>4. /\ alive' = alive \cup F!Range(f) /\ held' = held \cup {f[o]}
              /\ \A c \in Compositions :
                   \/ c \notin F!Range(f) /\ children'[c] = children[c]
                   \/ \E d \in F!Tree(o) \cap Compositions :
                        /\ c = f[d]
                        /\ children'[c] = [i \in 1..Len(children[d]) |-> f[children[d][i]]]
          BY <4>1, <4>2, <3>3, <3>6
        <4> QED BY <4>2, <4>3, <4>4, Zenon DEF F!Copy
      <3> QED BY <3>1, <3>7, SameOperators DEF F!Next
    <2> QED BY <1>4, <2>1, <2>2 DEF Clone
  <1>5. ASSUME NEW c \in Compositions, ClearChildren(c) PROVE Edit
    <2>1. /\ c \in alive /\ held' = held
          /\ children' = Blank([children EXCEPT ![c] = <<>>],
                               Gone([children EXCEPT ![c] = <<>>], held, alive), <<>>)
          /\ alive' = Survivors([children EXCEPT ![c] = <<>>], held, alive)
      BY <1>5 DEF ClearChildren, Settle
    <2>2. <<>> \in Seq(Objects) /\ Range(<<>>) \subseteq alive
      BY DEF Range
    <2>3. F!Change(c, <<>>)
      BY <2>1, <2>2, RelistChanges, KindsAssumption
    <2> QED BY <2>3 DEF F!Next, F!Empty
  <1>6. ASSUME NEW c \in Compositions, NEW list \in Lists, SetChildren(c, list) PROVE Edit
    <2>1. CASE Return("CHILD_ALREADY_PARENTED")
      BY <2>1, <1>r
    <2>2. CASE ~Return("CHILD_ALREADY_PARENTED")
      <3>1. /\ c \in alive /\ held' = held
            /\ children' = Blank([children EXCEPT ![c] = list],
                                 Gone([children EXCEPT ![c] = list], held, alive), <<>>)
            /\ alive' = Survivors([children EXCEPT ![c] = list], held, alive)
            /\ \A o \in Range(list) : parent[o] = NULL /\ o # c /\ ~IsParentOf(o, c)
            /\ Range(list) \subseteq alive /\ children[c] = <<>> /\ IsInjective(list)
        BY <2>2, <1>6, <1>y DEF SetChildren, Honours, Orphan, Settle
      <3>2. list \in Seq(Objects)
        BY ArgumentsAssumption
      <3>3. F!Change(c, list)
        BY <3>1, <3>2, RelistChanges, KindsAssumption
      <3>4. ASSUME NEW o \in Range(list) PROVE F!MayJoin(o, c)
        <4>1. o \notin Above(parent, c)
          BY <3>1, <1>t, <1>k, ParentIsAbove, KindsAssumption
        <4> QED BY <4>1, <3>1, MayJoinForest, KindsAssumption
      <3>5. F!Fill(c, list)
        BY <3>1, <3>3, <3>4, SameOperators DEF F!Fill
      <3> QED BY <3>5 DEF F!Next
    <2> QED BY <2>1, <2>2
  <1>7. ASSUME NEW c \in Compositions, NEW i \in Indices, NEW o \in Objects, InsertChild(c, i, o)
        PROVE  Edit
    <2>1. CASE Return("CHILD_ALREADY_PARENTED")
      BY <2>1, <1>r
    <2>2. CASE ~Return("CHILD_ALREADY_PARENTED")
      <3> DEFINE slot == InsertSlot(i, children[c])
                 list == InsertAt(children[c], slot, o)
      <3>1. /\ c \in alive /\ o \in alive /\ held' = held
            /\ children' = Blank([children EXCEPT ![c] = list],
                                 Gone([children EXCEPT ![c] = list], held, alive), <<>>)
            /\ alive' = Survivors([children EXCEPT ![c] = list], held, alive)
            /\ parent[o] = NULL /\ o # c /\ ~IsParentOf(o, c)
        BY <2>2, <1>7, <1>y DEF InsertChild, Honours, Orphan, Settle
      <3>2. slot \in 1..(Len(children[c]) + 1) /\ children[c] \in Seq(Objects)
        BY <1>t, SlotFacts, ArgumentsAssumption
      <3> HIDE DEF slot
      <3>3. list \in Seq(Objects) /\ Range(list) \subseteq alive
        BY <3>1, <3>2, <1>w, InsertAtElements
      <3>4. list = F!InsertAt(children[c], slot, o)
        BY SameOperators
      <3> HIDE DEF list
      <3>5. F!Change(c, list)
        BY <3>1, <3>3, RelistChanges, KindsAssumption
      <3>6. o \notin Above(parent, c)
        BY <3>1, <1>t, <1>k, ParentIsAbove, KindsAssumption
      <3>7. F!MayJoin(o, c)
        BY <3>1, <3>6, MayJoinForest, KindsAssumption
      <3>8. F!Attach(c, slot, o)
        BY <3>4, <3>5, <3>7 DEF F!Attach
      <3> QED BY <3>2, <3>8, SameOperators DEF F!Next
    <2> QED BY <2>1, <2>2
  <1>8. ASSUME NEW c \in Compositions, NEW i \in Indices, NEW o \in Objects, SetChild(c, i, o)
        PROVE  Edit
    <2>1. CASE \E st \in Statuses : Return(st)
      BY <2>1, <1>r
    <2>2. CASE ~\E st \in Statuses : Return(st)
      <3> DEFINE slot == Adjusted(i, children[c]) + 1
                 list == ReplaceAt(children[c], slot, o)
      <3>1. /\ c \in alive /\ o \in alive /\ held' = held
            /\ children' = Blank([children EXCEPT ![c] = list],
                                 Gone([children EXCEPT ![c] = list], held, alive), <<>>)
            /\ alive' = Survivors([children EXCEPT ![c] = list], held, alive)
            /\ parent[o] = NULL /\ o # c /\ ~IsParentOf(o, c) /\ InList(i, children[c])
        BY <2>2, <1>8, <1>y DEF SetChild, Honours, Orphan, Statuses, Settle
      <3>2. slot \in 1..Len(children[c]) /\ children[c] \in Seq(Objects)
        BY <3>1, <1>t, SlotFacts, ArgumentsAssumption
      <3> HIDE DEF slot
      <3>3. list \in Seq(Objects) /\ Range(list) \subseteq alive
        BY <3>1, <3>2, <1>w, ReplaceAtElements
      <3>4. list = F!ReplaceAt(children[c], slot, o)
        BY SameOperators
      <3> HIDE DEF list
      <3>5. F!Change(c, list)
        BY <3>1, <3>3, RelistChanges, KindsAssumption
      <3>6. o \notin Above(parent, c)
        BY <3>1, <1>t, <1>k, ParentIsAbove, KindsAssumption
      <3>7. F!MayJoin(o, c)
        BY <3>1, <3>6, MayJoinForest, KindsAssumption
      <3>8. F!Replace(c, slot, o)
        BY <3>4, <3>5, <3>7 DEF F!Replace
      <3> QED BY <3>2, <3>8, SameOperators DEF F!Next
    <2> QED BY <2>1, <2>2
  <1>9. ASSUME NEW c \in Compositions, NEW i \in Indices, RemoveChild(c, i) PROVE Edit
    <2>1. CASE Return("ILLEGAL_INDEX")
      BY <2>1, <1>r
    <2>2. CASE ~Return("ILLEGAL_INDEX")
      <3> DEFINE slot == Adjusted(i, children[c]) + 1
                 list == RemoveAt(children[c], slot)
      <3>1. RemoveAtSlot(c, slot) /\ InList(i, children[c]) /\ c \in alive
        BY <2>2, <1>9, <1>y DEF RemoveChild, Honours
      <3>2. /\ held' = held
            /\ children' = Blank([children EXCEPT ![c] = list],
                                 Gone([children EXCEPT ![c] = list], held, alive), <<>>)
            /\ alive' = Survivors([children EXCEPT ![c] = list], held, alive)
        BY <3>1 DEF RemoveAtSlot, Settle
      <3>3. slot \in 1..Len(children[c]) /\ children[c] \in Seq(Objects)
        BY <3>1, <1>t, SlotFacts, ArgumentsAssumption
      <3> HIDE DEF slot
      <3>4. list \in Seq(Objects) /\ Range(list) \subseteq alive
        BY <3>3, <1>w, RemoveAtElements
      <3>5. list = F!RemoveAt(children[c], slot)
        BY SameOperators
      <3> HIDE DEF list
      <3>6. F!Change(c, list)
        BY <3>1, <3>2, <3>4, RelistChanges, KindsAssumption
      <3>7. F!Detach(c, slot)
        BY <3>5, <3>6 DEF F!Detach
      <3> QED BY <3>3, <3>7, SameOperators DEF F!Next
    <2> QED BY <2>1, <2>2
  <1> QED
    BY <1>1, <1>2, <1>3, <1>4, <1>5, <1>6, <1>7, <1>8, <1>9 DEF Next

\* For clients that honour every duty, Composition implements Forest: lists,
\* lookup sets, parent pointers and reference counts together are an ordered
\* forest, each call is one edit of it or changes nothing, and after it exactly
\* the trees that some client holds are alive.
THEOREM CompositionIsAForest ==
    ASSUME Obligations = Duties
    PROVE  Spec => ImplementsForest
  <1>1. Init => Forested /\ F!Init
    BY InitForested, KindsAssumption DEF Init, F!Init
  <1>2. Forested /\ [Next]_vars => Forested'
    BY ForestedStep, KindsAssumption, ArgumentsAssumption
  <1>3. Forested /\ Forested' /\ [Next]_vars => [F!Next]_<<children, alive, held>>
    BY ForestStep, KindsAssumption, ArgumentsAssumption DEF vars
  <1> QED BY <1>1, <1>2, <1>3, PTL DEF Spec, ImplementsForest, F!Spec
================================================================================
