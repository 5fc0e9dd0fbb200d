------------------------------ MODULE Composition ------------------------------
(* The hierarchy a timeline is made of: class Composition and its base class   *)
(* Composable, src/opentimelineio/composition.cpp and composable.cpp.  A       *)
(* composition (Track, Stack) keeps three records of who its children are:     *)
(*                                                                             *)
(*   _children    the ordered list of Retainers, which also keeps them alive,  *)
(*   _child_set   a set of pointers, "for fast lookup only",                   *)
(*   _parent      a raw pointer in each child back to its composition,         *)
(*                                                                             *)
(* and every call updates the three by hand.  Objects are reference counted:   *)
(* an object lives while a client Retainer or a living composition's list      *)
(* holds it, and ~Composition clears the children of a composition that dies.  *)
(*                                                                             *)
(* The code leaves some duties to its callers without checking them.  Each is  *)
(* named in Duties; Obligations says which of them the clients of a run        *)
(* honour, so Obligations = {} is the code under arbitrary legal calls.        *)
EXTENDS Integers, SequencesExt

CONSTANTS
    Compositions,   \* objects of class Composition or below (Track, Stack)
    Leaves,         \* the other Composables (Clip, Gap, Item, Transition)
    NULL,           \* nullptr
    Indices,        \* the int arguments given as an index
    Lists,          \* the vectors given to set_children
    Capacity,       \* bound of the model: insert_child stops at this length
    Obligations,    \* the duties the clients honour
    AllowClone      \* whether clients call clone()

Objects == Compositions \cup Leaves

Duties == {"replace_empty",  \* set_children only on a composition without children
           "distinct",       \* no child twice in one set_children
           "in_range",       \* remove_child only at an index of the list
           "no_cycle"}       \* no composition put below itself

ASSUME KindsAssumption ==
    /\ Compositions \cap Leaves = {}
    /\ NULL \notin Objects
ASSUME ArgumentsAssumption ==
    /\ Indices \subseteq Int
    /\ Lists \subseteq Seq(Objects)
    /\ Capacity \in Nat
    /\ Obligations \subseteq Duties
    /\ AllowClone \in BOOLEAN

VARIABLES
    children,   \* _children of each composition
    childSet,   \* _child_set of each composition
    parent,     \* _parent of each object; NULL also stands for "no object"
    held,       \* the objects a client holds a Retainer to
    alive,      \* the objects allocated and not yet destroyed
    status      \* the ErrorStatus outcome of the last call

vars == <<children, childSet, parent, held, alive, status>>

--------------------------------------------------------------------------------
(* The state a client can read.                                                *)

Orphan(o) == parent[o] = NULL

\* What is reached from o by following _parent, o included: the smallest set
\* with o in it that is closed under _parent.
Lineage(o) ==
    {x \in Objects :
        \A S \in SUBSET Objects :
            (o \in S /\ \A y \in S : parent[y] # NULL => parent[y] \in S) => x \in S}

\* Composition::is_parent_of: the walk stops at a repeated ancestor, so on a
\* cycle it still answers.
IsParentOf(c, o) == parent[o] # NULL /\ c \in Lineage(parent[o])

\* Composition::has_child looks in _child_set, index_of_child in _children.
HasChild(c, o) == o \in childSet[c]
IndexOfChild(c, o) ==
    IF o \in Range(children[c])
    THEN CHOOSE i \in 1..Len(children[c]) :
            /\ children[c][i] = o
            /\ \A j \in 1..(i-1) : children[c][j] # o
    ELSE 0

--------------------------------------------------------------------------------
(* Reference counting: what is left once the Retainers given up by a call have *)
(* been released.  An object survives if a client holds it or a surviving      *)
(* composition lists it; objects on a cycle keep each other alive.             *)

\* Mutant: only what a client holds keeps its children alive.
Kept_Shallow(ch, hd, S) ==
    \A o \in S : o \in hd \/ \E p \in S \cap Compositions \cap hd : o \in Range(ch[p])

Kept(ch, hd, S) ==
    \A o \in S : o \in hd \/ \E p \in S \cap Compositions : o \in Range(ch[p])

Survivors(ch, hd, al) == UNION {S \in SUBSET al : Kept(ch, hd, S)}

\* The compositions ~Composition runs for.
Gone(ch, hd, al) == Compositions \cap (al \ Survivors(ch, hd, al))

\* Mutant: ~Composition leaves its records.
Blank_Not(f, gone, nothing) == f

Blank(f, gone, nothing) == [c \in Compositions |-> IF c \in gone THEN nothing ELSE f[c]]

Unlisted(par, ch, live, gone) ==
    [o \in Objects |->
        IF o \notin live \/ \E p \in gone : o \in Range(ch[p]) THEN NULL ELSE par[o]]

\* The end of every call: the objects nobody retains are destroyed, each dead
\* composition clears its children's _parent whatever it points to, and a
\* survivor's _parent is otherwise left as it is.
Settle(ch, cs, par, hd, al) ==
    /\ alive' = Survivors(ch, hd, al)
    /\ held' = hd
    /\ children' = Blank(ch, Gone(ch, hd, al), <<>>)
    /\ childSet' = Blank(cs, Gone(ch, hd, al), {})
    /\ parent' = Unlisted(par, ch, Survivors(ch, hd, al), Gone(ch, hd, al))

\* A call that returns without having changed anything.
Return(st) ==
    /\ status' = st
    /\ UNCHANGED <<children, childSet, parent, held, alive>>

Honours(duty, condition) == duty \in Obligations => condition

--------------------------------------------------------------------------------
(* Object lifetime, driven by the clients' Retainers.                          *)

New(o) ==
    /\ o \notin alive
    /\ alive' = alive \cup {o}
    /\ held' = held \cup {o}
    /\ status' = "OK"
    /\ UNCHANGED <<children, childSet, parent>>

Retain(o) ==
    /\ o \in alive \ held
    /\ held' = held \cup {o}
    /\ status' = "OK"
    /\ UNCHANGED <<children, childSet, parent, alive>>

Release(o) ==
    /\ o \in held
    /\ status' = "OK"
    /\ Settle(children, childSet, parent, held \ {o}, alive)

--------------------------------------------------------------------------------
(* The mutators of Composition.                                                *)

\* Mutant: the children are dropped from the list before their _parent is cleared.
ClearChildren_ListFirst(c) ==
    /\ c \in alive
    /\ status' = "OK"
    /\ Settle([children EXCEPT ![c] = <<>>], [childSet EXCEPT ![c] = {}], parent, held, alive)

ClearChildren(c) ==
    /\ c \in alive
    /\ status' = "OK"
    /\ Settle([children EXCEPT ![c] = <<>>],
              [childSet EXCEPT ![c] = {}],
              [o \in Objects |-> IF o \in Range(children[c]) THEN NULL ELSE parent[o]],
              held, alive)

\* Every child must be an orphan when the call starts; the previous children
\* are dropped from the list without a change to their _parent.
SetChildren(c, list) ==
    /\ c \in alive /\ Range(list) \subseteq alive
    /\ Honours("replace_empty", children[c] = <<>>)
    /\ Honours("distinct", IsInjective(list))
    /\ Honours("no_cycle", c \notin Range(list) /\ \A o \in Range(list) : ~IsParentOf(o, c))
    /\ \/ /\ \E o \in Range(list) : ~Orphan(o)
          /\ Return("CHILD_ALREADY_PARENTED")
       \/ /\ \A o \in Range(list) : Orphan(o)
          /\ status' = "OK"
          /\ Settle([children EXCEPT ![c] = list],
                    [childSet EXCEPT ![c] = Range(list)],
                    [o \in Objects |-> IF o \in Range(list) THEN c ELSE parent[o]],
                    held, alive)

\* adjusted_vector_index: a negative index counts from the end.
Adjusted(index, list) == IF index < 0 THEN Len(list) + index ELSE index

\* The 1-based slot where insert_child puts a new element.
InsertSlot(index, list) ==
    LET i == Adjusted(index, list)
    IN  IF i >= Len(list) THEN Len(list) + 1 ELSE IF i < 0 THEN 1 ELSE i + 1

\* Mutant: has_child is asked instead of the child's _parent.
InsertChild_AsksOwnSet(c, index, child) ==
    /\ c \in alive /\ child \in alive /\ Len(children[c]) < Capacity
    /\ ~HasChild(c, child)
    /\ status' = "OK"
    /\ Settle([children EXCEPT ![c] = InsertAt(@, InsertSlot(index, @), child)],
              [childSet EXCEPT ![c] = @ \cup {child}],
              [parent EXCEPT ![child] = c],
              held, alive)

InsertChild(c, index, child) ==
    /\ c \in alive /\ child \in alive /\ Len(children[c]) < Capacity
    /\ Honours("no_cycle", child # c /\ ~IsParentOf(child, c))
    /\ \/ ~Orphan(child) /\ Return("CHILD_ALREADY_PARENTED")
       \/ /\ Orphan(child)
          /\ status' = "OK"
          /\ Settle([children EXCEPT ![c] = InsertAt(@, InsertSlot(index, @), child)],
                    [childSet EXCEPT ![c] = @ \cup {child}],
                    [parent EXCEPT ![child] = c],
                    held, alive)

InList(index, list) == Adjusted(index, list) \in 0..(Len(list) - 1)

\* Mutant: the old child is detached before the new one is checked.
SetChild_DetachFirst(c, index, child) ==
    LET slot == Adjusted(index, children[c]) + 1
        old  == children[c][slot]
    IN  /\ c \in alive /\ child \in alive /\ InList(index, children[c]) /\ old # child
        /\ \/ Orphan(child) /\ status' = "OK"
           \/ ~Orphan(child) /\ status' = "CHILD_ALREADY_PARENTED"
        /\ Settle([children EXCEPT ![c] = IF Orphan(child) THEN ReplaceAt(@, slot, child) ELSE @],
                  [childSet EXCEPT ![c] = @ \ {old}],
                  [parent EXCEPT ![old] = NULL],
                  held, alive)

\* set_child retains the new child before the old one's Retainer is released.
SetChild(c, index, child) ==
    LET slot == Adjusted(index, children[c]) + 1
        old  == children[c][slot]
    IN  /\ c \in alive /\ child \in alive
        /\ Honours("no_cycle", child # c /\ ~IsParentOf(child, c))
        /\ \/ ~InList(index, children[c]) /\ Return("ILLEGAL_INDEX")
           \/ InList(index, children[c]) /\ old = child /\ Return("OK")
           \/ /\ InList(index, children[c]) /\ old # child /\ ~Orphan(child)
              /\ Return("CHILD_ALREADY_PARENTED")
           \/ /\ InList(index, children[c]) /\ old # child /\ Orphan(child)
              /\ status' = "OK"
              /\ Settle([children EXCEPT ![c] = ReplaceAt(@, slot, child)],
                        [childSet EXCEPT ![c] = (@ \ {old}) \cup {child}],
                        [parent EXCEPT ![old] = NULL, ![child] = c],
                        held, alive)

\* Mutant: the removed child stays in the lookup set.
RemoveAtSlot_KeepsSet(c, slot) ==
    /\ status' = "OK"
    /\ Settle([children EXCEPT ![c] = RemoveAt(@, slot)], childSet,
              [parent EXCEPT ![children[c][slot]] = NULL], held, alive)

\* The part of remove_child that runs for an index of the list.
RemoveAtSlot(c, slot) ==
    LET old == children[c][slot]
    IN  /\ status' = "OK"
        /\ Settle([children EXCEPT ![c] = RemoveAt(@, slot)],
                  [childSet EXCEPT ![c] = @ \ {old}],
                  [parent EXCEPT ![old] = NULL],
                  held, alive)

\* remove_child at any other index: _children[index] is read past either end of
\* the vector before the range is looked at, so what is erased from the set is
\* whatever pointer was found there (NULL: none of its members), and then the
\* last child is removed from the list alone.
RemoveOutside(c) ==
    \E junk \in childSet[c] \cup {NULL} :
        /\ status' = "OK"
        /\ Settle([children EXCEPT ![c] = Front(@)],
                  [childSet EXCEPT ![c] = @ \ {junk}],
                  [parent EXCEPT ![Last(children[c])] = NULL],
                  held, alive)

RemoveChild(c, index) ==
    /\ c \in alive
    /\ \/ children[c] = <<>> /\ Return("ILLEGAL_INDEX")
       \/ /\ InList(index, children[c])
          /\ RemoveAtSlot(c, Adjusted(index, children[c]) + 1)
       \/ /\ children[c] # <<>> /\ ~InList(index, children[c])
          /\ Honours("in_range", FALSE)
          /\ RemoveOutside(c)

--------------------------------------------------------------------------------
(* SerializableObject::clone: the object is encoded and decoded again, and     *)
(* Composition::read_from restores _children and each child's _parent.         *)

\* What a composition holds, itself included.
Below(o) ==
    {x \in Objects :
        \A S \in SUBSET Objects :
            (o \in S /\ \A c \in S \cap Compositions : Range(children[c]) \subseteq S)
            => x \in S}

OnCycle(o) == \E c \in Below(o) \cap Compositions : \E x \in Range(children[c]) : c \in Below(x)

\* Bound of the model: only structures where every object is listed once are
\* copied (a repeated child would be copied once for each place).
ListedOnce(S) ==
    \A c, d \in S \cap Compositions :
        /\ IsInjective(children[c])
        /\ c # d => Range(children[c]) \cap Range(children[d]) = {}

\* f takes each object of the structure to its copy, a newly allocated object
\* of the same class.
Copying(o) ==
    {f \in [Below(o) -> Objects \ alive] :
        IsInjective(f) /\ \A x \in DOMAIN f : x \in Compositions <=> f[x] \in Compositions}

CopyOf(f, o) ==
    LET src(y) == CHOOSE x \in DOMAIN f : f[x] = y
    IN  /\ children' = [c \in Compositions |->
                          IF c \in Range(f)
                          THEN [i \in 1..Len(children[src(c)]) |-> f[children[src(c)][i]]]
                          ELSE children[c]]
        /\ childSet' = childSet        \* read_from does not touch _child_set
        /\ parent' = [y \in Objects |->
                        IF y \in Range(f) \ {f[o]}
                        THEN f[CHOOSE c \in DOMAIN f \cap Compositions :
                                 src(y) \in Range(children[c])]
                        ELSE parent[y]]
        /\ alive' = alive \cup Range(f)
        /\ held' = held \cup {f[o]}

Clone(o) ==
    /\ AllowClone /\ o \in alive
    /\ \/ OnCycle(o) /\ Return("OBJECT_CYCLE")
       \/ /\ ~OnCycle(o) /\ ListedOnce(Below(o))
          /\ status' = "OK"
          /\ \E f \in Copying(o) : CopyOf(f, o)

--------------------------------------------------------------------------------

Init ==
    /\ children = [c \in Compositions |-> <<>>]
    /\ childSet = [c \in Compositions |-> {}]
    /\ parent = [o \in Objects |-> NULL]
    /\ held = {}
    /\ alive = {}
    /\ status = "OK"

Next ==
    \/ \E o \in Objects : New(o) \/ Retain(o) \/ Release(o) \/ Clone(o)
    \/ \E c \in Compositions :
        \/ ClearChildren(c)
        \/ \E list \in Lists : SetChildren(c, list)
        \/ \E i \in Indices : RemoveChild(c, i)
        \/ \E i \in Indices, o \in Objects : InsertChild(c, i, o) \/ SetChild(c, i, o)

Spec == Init /\ [][Next]_vars

--------------------------------------------------------------------------------
(* Properties.                                                                 *)

Statuses == {"OK", "CHILD_ALREADY_PARENTED", "ILLEGAL_INDEX", "OBJECT_CYCLE"}

Typed(ch, cs, par, hd, al) ==
    /\ ch \in [Compositions -> Seq(Objects)]
    /\ cs \in [Compositions -> SUBSET Objects]
    /\ par \in [Objects -> Compositions \cup {NULL}]
    /\ al \in SUBSET Objects
    /\ hd \in SUBSET al
    /\ \A c \in Compositions \ al : ch[c] = <<>> /\ cs[c] = {}
    /\ \A o \in Objects \ al : par[o] = NULL

\* Every list, set and pointer holds objects of its class, and what is destroyed
\* is in no list and has no parent.
TypeOK ==
    /\ Typed(children, childSet, parent, held, alive)
    /\ status \in Statuses

\* A child's parent() and its parent's children() tell the same story: an object
\* points to a composition exactly when that composition is alive and lists it.
\* (_set_parent against _children in every mutator and in ~Composition.)
ParentMatchesLists ==
    \A o \in alive, c \in Compositions :
        parent[o] = c <=> c \in alive /\ o \in Range(children[c])

\* No parent pointer outlives its composition.  Destruction nulls the pointers of
\* the children the composition lists at that time, and of no other object.
NoDanglingParent == \A o \in alive : parent[o] # NULL => parent[o] \in alive

\* "Instancing is not allowed": an object is at one place of one list.
InOnePlace ==
    \A c, d \in alive \cap Compositions :
        \A i \in 1..Len(children[c]), j \in 1..Len(children[d]) :
            children[c][i] = children[d][j] => c = d /\ i = j

\* The lookup set never claims an object that is not in the list: has_child true
\* means index_of_child finds it.
NoFalseMember ==
    \A c \in alive \cap Compositions, o \in Objects :
        HasChild(c, o) => IndexOfChild(c, o) # 0

\* Nothing is above itself: the _parent walks without a visited set
\* (_highest_ancestor, root search in the time transforms) end.
Acyclic == \A o \in alive : ~Orphan(o) => o \notin Lineage(parent[o])

\* Reference counting leaves no garbage: whatever is alive is held by a client,
\* or sits below an object that is.
NoLeak == \A o \in alive : Lineage(o) \cap held # {}

\* A call that reports an error has changed nothing, whatever it had begun.
RefusalIsClean ==
    [][status' # "OK" => UNCHANGED <<children, childSet, parent, held, alive>>]_vars

\* A child is never taken from one composition into another in one call: the
\* client detaches it first (test_move_child).
NoStealing ==
    [][\A o \in alive \cap alive' :
         parent[o] \in alive \cap alive' /\ parent'[o] # NULL => parent'[o] = parent[o]]_vars

\* The three records are as if there were one: the lookup set claims nothing that
\* the list does not hold, the parent pointers make no cycle, and nothing stays
\* alive that no client can reach (remove_child, is_parent_of, possibly_delete).
HierarchySound == NoFalseMember /\ Acyclic /\ NoLeak

\* Parent pointers and lists tell one story and every child has one place, also
\* where there are cycles: every mutator and ~Composition keep all three.
PlacedOnce == ParentMatchesLists /\ NoDanglingParent /\ InOnePlace

--------------------------------------------------------------------------------
(* Composition implements Forest.                                              *)

F == INSTANCE Forest WITH kids <- children, live <- alive, held <- held

\* The three records, the pointer checks and the reference counts together
\* behave as an ordered forest whose unheld trees disappear, when the clients
\* honour every duty.
ImplementsForest == F!Spec
================================================================================
