-------------------------------- MODULE Forest ---------------------------------
(* What the composition hierarchy promises its users: an ordered forest.  The  *)
(* only structure is the list of each composition; that an object has at most  *)
(* one place, that the forest has no cycle and that exactly the trees somebody *)
(* holds are alive follow from the guards here.  There is no parent pointer,   *)
(* no lookup set and no reference count: Composition.tla implements them.      *)
EXTENDS Integers, SequencesExt

CONSTANTS Compositions, Leaves, Lists

VARIABLES kids, live, held

Objects == Compositions \cup Leaves

\* The smallest set with roots in it that is closed under the lists of k.
Reach(k, roots) ==
    {x \in Objects :
        \A S \in SUBSET Objects :
            (roots \subseteq S /\ \A c \in S \cap Compositions : Range(k[c]) \subseteq S)
            => x \in S}

Tree(o) == Reach(kids, {o})

Free(o) == o \in live /\ \A c \in Compositions : o \notin Range(kids[c])

\* o may be put into c: it is nowhere else and c is not part of its tree.
MayJoin(o, c) == Free(o) /\ c \notin Tree(o)

\* After a change, the trees nobody holds are gone.
Prune(k, hd) ==
    /\ held' = hd
    /\ live' = Reach(k, hd)
    /\ kids' = [c \in Compositions |-> IF c \in Reach(k, hd) THEN k[c] ELSE <<>>]

Create(o) ==
    /\ o \notin live
    /\ live' = live \cup {o} /\ held' = held \cup {o} /\ kids' = kids

Hold(o) == o \in live \ held /\ held' = held \cup {o} /\ UNCHANGED <<kids, live>>

Drop(o) == o \in held /\ Prune(kids, held \ {o})

Change(c, list) == c \in live /\ Prune([kids EXCEPT ![c] = list], held)

Attach(c, slot, o) == MayJoin(o, c) /\ Change(c, InsertAt(kids[c], slot, o))

Replace(c, slot, o) == MayJoin(o, c) /\ Change(c, ReplaceAt(kids[c], slot, o))

Detach(c, slot) == Change(c, RemoveAt(kids[c], slot))

Fill(c, list) ==
    /\ kids[c] = <<>>
    /\ IsInjective(list) /\ \A o \in Range(list) : MayJoin(o, c)
    /\ Change(c, list)

Empty(c) == Change(c, <<>>)

\* A tree is copied, list by list, onto objects that did not exist.
Copy(o) ==
    \E f \in [Tree(o) -> Objects \ live] :
        /\ IsInjective(f)
        /\ live' = live \cup Range(f)
        /\ held' = held \cup {f[o]}
        /\ \A c \in Compositions :
            \/ c \notin Range(f) /\ kids'[c] = kids[c]
            \/ \E d \in Tree(o) \cap Compositions :
                /\ c = f[d]
                /\ kids'[c] = [i \in 1..Len(kids[d]) |-> f[kids[d][i]]]
        /\ kids' \in [Compositions -> Seq(Objects)]

Init == kids = [c \in Compositions |-> <<>>] /\ live = {} /\ held = {}

Next ==
    \/ \E o \in Objects : Create(o) \/ Hold(o) \/ Drop(o) \/ (o \in live /\ Copy(o))
    \/ \E c \in Compositions :
        \/ Empty(c)
        \/ \E list \in Lists : Fill(c, list)
        \/ \E i \in 1..Len(kids[c]) :
            Detach(c, i) \/ \E o \in Objects : Replace(c, i, o)
        \/ \E i \in 1..(Len(kids[c]) + 1), o \in Objects : Attach(c, i, o)

Spec == Init /\ [][Next]_<<kids, live, held>>
================================================================================
