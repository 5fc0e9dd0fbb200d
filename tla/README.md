# Formal models of OpenTimelineIO

OpenTimelineIO is a library for editorial timelines: trees of tracks, stacks,
clips, gaps and transitions, the media they refer to, and the time arithmetic
between them. The core is C++ (`src/opentimelineio`, `src/opentime`), wrapped by
Python bindings (`src/py-opentimelineio`) with adapters, hooks and tools on top.

This directory holds TLA+ models of the core and of the part of the Python layer
that changes state, TLC configurations that check them on small instances, and
theorems proved with TLAPS for all instances. `PROJECT.json` is the index:
components, runs, mutants (a plausible bug for every property, which the property
catches), the map from definitions to source lines, findings, hazards, theorems.

1. [Inventory](#1-inventory)
2. [Plan](#2-plan)
3. [The modules and the code](#3-the-modules-and-the-code)
4. [The runs](#4-the-runs)
5. [What is proved](#5-what-is-proved)
6. [What is only model-checked, and what is not modelled](#6-what-is-only-model-checked-and-what-is-not-modelled)
7. [Deviations](#7-deviations)

## 1. Inventory

Paths are relative to `src/src/`.

| component | state | operations | interacts with |
|---|---|---|---|
| composition hierarchy (`composition.cpp`, `composable.cpp`) | `_children` (retainers), `_child_set` (pointers), `_parent` in each child | clear, set, insert, set one, remove, destroy, read_from | reference counting, every algorithm |
| reference counting (`serializableObject.*`) | `_managed_ref_count`, `_mutex`, keepalive monitor | retain, release, take_value, possibly_delete, install monitor | Python bindings (called back outside the lock) |
| time queries (`composition.cpp`, `track.cpp`, `stack.cpp`, `item.cpp`) | none of their own: source ranges and offsets of the tree | range_of_child(_at_index), range_of_all_children, trimmed variants, child_at_time, children_in_range, find_children, neighbors_of, handles_of_child, transformed_time | opentime, hierarchy |
| edit algorithms (`algo/editAlgorithm.cpp`) | a track's children and their source ranges | overwrite, insert, trim, slice, slip, slide, ripple, roll, fill, remove | time queries, hierarchy |
| track and stack algorithms | copies of tracks, ranges by address | track_trimmed_to_range, flatten_stack | clone, time queries |
| clips and media references (`clip.cpp`) | map key -> reference, active key | set_media_references, set_active_media_reference_key, set_media_reference | serialization (read_from bypasses the checks) |
| metadata containers (`anyDictionary.h`, `anyVector.h`) | map, mutation stamp shared with proxies | mutators, copy, move, swap, destroy, iterate | Python proxies and iterators |
| serialization (`serialization.cpp`, `deserialization.cpp`) | encoder stack, ids of objects being written, resolver tables | write, clone, compare, downgrade, decode, finalize | type registry, every schema's read_from / write_to |
| type registry (`typeRegistry.cpp`) | records with create, upgrade and downgrade functions, under a mutex | register, alias, instance_from_schema | serialization, Python schema definitions |
| schema records | the fields of each class | getters, setters, read_from, write_to | serialization |
| opentime (`opentime/`) | values | arithmetic between rates, range predicates, timecode, time strings | everything |
| Python sequence protocol (`core/_core_utils.py`, `otio_anyVector.h`, `otio_utils.h`) | none of its own | list-like get, set, delete, slices, restore after an exception | hierarchy, containers |
| adapters, bundles, plugins, hooks, media linkers, algorithms in Python | a manifest read once | dispatch, load, link | file system |
| serializable collection, timeline, effects, markers, colors, error status | plain records | getters, setters | - |
| console tools, viewer, version map tables | - | - | - |

What is hard, and what makes each correct:

* **Hierarchy.** Three hand-kept records of one relation, updated in six places;
  an object may be destroyed in the middle of a call. Correct: the records agree
  after every call, a refused call changes nothing, no pointer outlives its
  target, the whole is an ordered forest.
* **Reference counting.** Retain and release from several threads; the monitor
  that keeps the Python wrapper alive is called after the lock is released.
  Correct: an object is destroyed once, after its last retainer, and its wrapper
  is kept exactly while C++ holds it.
* **Time queries.** Binary searches over keys that need not be sorted when
  transitions overlap; ranges accumulated over several levels; a search range
  transformed in a loop over siblings. Correct: they agree with the definition
  by linear search, at every level.
* **Edits.** Each edit rewrites several neighbours' source ranges. Correct: what
  the edit does not name plays the same media at the same time.
* **Flattening.** A recursion over trimmed copies that are freed, with a map keyed
  by their addresses. Correct: the flat track shows what the topmost track shows.
* **Serialization and registry.** Cycles, repeated references, errors in the
  middle of a stream, objects that are filled in after all were made, schema
  versions in both directions. Correct: a copy is the original, an error is
  reported exactly where it should be (it is not always: section 7).
* **Opentime.** Drop frame counting and its boundaries, rates that are only near
  a standard one, mixed rates. Correct: reading undoes showing, labels count on.
* **Containers.** A Python iterator outlives mutations and the container itself.
  Correct: whoever is not refused is on safe ground.
* **Sequences.** Slices taken apart into single calls, each of which may fail.
  Correct: as a list, or as before.

## 2. Plan

The hierarchy came first, because everything else edits it or walks it; then what
is asked of it in time; then the part that is concurrent; then the algorithms
that rest on those, and the parts that stand alone.

| module | what | uses | state of the work |
|---|---|---|---|
| `Composition` | hierarchy, retainers, destruction, clone | - | checked, proved |
| `Forest` | what the hierarchy promises: an ordered forest | implemented by `Composition` | checked, implementation proved |
| `ListLemmas` | lists, and loops and recursive functions | - | used by the proofs below |
| `CompositionProofs` | theorems about the two | `Composition` | types, one parent, no stealing; soundness, clean refusals, the refinement |
| `KeepAlive`, `KeepAliveProofs` | counting by threads, the keepalive monitor | - | safety proved |
| `TimeRanges` | ranges of one rate and their predicates | - | proved in part |
| `TrackItems`, `Bisection` | the children of a track as values; the binary searches | `TimeRanges` | used below |
| `TimeSpace`, `TimeSpaceProofs` | durations, ranges, trims, transforms, searches | `Bisection` | checked, proved |
| `EditAlgorithm`, `EditProofs` | the ten edits of a track | `TrackItems`, `Bisection` | checked, proved |
| `Flatten`, `FlattenProofs` | track_trimmed_to_range, flatten_stack | `TrackItems` | checked; memory and what is shown proved |
| `SchemaRecords`, `TypeRegistry`, `Serialization`, `Deserialization` | fields of every class, registry, writer and encoders, decoder and resolver | - | used by `Document` |
| `Document` | clone, save, load, compare; the active key of clips | those four | checked |
| `Fractions`, `RationalTime`, `Timecode` | exact numbers; times with rates; timecode and time strings | - | checked |
| `Containers`, `ContainersProofs` | dictionaries, proxies, iterators | - | checked, proved |
| `SequenceProtocol`, `SequenceProofs` | list-like containers under Python's calls | - | checked, proved |

Abstract specifications: `Forest` for the hierarchy; the played sequence of a
track (`Frames`) for edits and flattening; a document as a tree (`Tree`) for
serialization; the successor of a label for timecode; Python's list for sequences.

Left to prove: that flattened tracks keep their transitions, and the labels of timecode. Left
to model: registration of schemas by clients and threads, filtered compositions, and an
iteration over a container that shrinks.

## 3. The modules and the code

### Composition and Forest

`Composition` has one variable per record of the code: `children` is `_children`,
`childSet` is `_child_set`, `parent` is `_parent`, `alive` the objects not yet
destroyed, `held` the objects clients hold by a `Retainer`, `status` the outcome in
`ErrorStatus`. One action is one call of a client, to its return:

| action | code |
|---|---|
| `New`, `Retain`, `Release` | constructors and `Retainer`s of the client |
| `ClearChildren`, `SetChildren`, `InsertChild`, `SetChild`, `RemoveChild` | the mutators of `composition.cpp` (`append_child` is `insert_child` at the end) |
| `RemoveOutside` | what `remove_child` does with an index outside the list, a read past the end of the vector included: any pointer may be found there |
| `Clone` | `SerializableObject::clone`, through the encoder to `Composition::read_from` |

Every call ends in `Settle`, the cascade of `~Composition` and `_managed_release`:
what no client and no living composition holds is destroyed. Reference counts are
not numbers here: an object survives if it is in the largest set whose members
are each held by a client or listed by another member, which is what counting
leaves, cycles included. (A count that is wrong cannot be seen in this model;
`KeepAlive` counts.)

The code leaves four duties to its clients and does not check them. They are the
members of `Duties`; the constant `Obligations` of a run says which of them its
clients honour:

* `replace_empty`: `set_children` only where there are no children;
* `distinct`: no child twice in one `set_children`;
* `in_range`: `remove_child` only inside the list;
* `no_cycle`: no composition put below itself.

`Forest` keeps lists only, and says by its guards what is a forest and by `Prune`
what dies. `Composition` maps `kids`, `live` and `held` to `children`, `alive` and `held`
(`F`, `ImplementsForest`); a refused call is a stutter.

### TimeRanges, Bisection and TimeSpace

`TimeRanges` translates `timeRange.h` over integers. Where all times have one rate,
two values differ by a multiple of `1/rate`, far above the tolerance of the
comparisons, so comparisons of doubles are comparisons of integers.

`Bisection` has `_bisect_left` and `_bisect_right`, as recursive functions of their
two bounds, and the two searches that use them; `TimeSpace` and `EditAlgorithm`
share it.

`TimeSpace` has what the queries read: `children`, `parent`, `source`
(`_source_range`), `offset` (of transitions). Its actions build a hierarchy and set
source ranges, as clients do; everything else is an operator that translates one
query: `Duration`, `RangeOfChildAtIndex`, `RangeOfAllChildren`, `RangeOfChild`,
`TrimChildRange`, `TrimmedRangeOfChild(AtIndex)`, `TransformedTime`, `ChildAtTime`,
`ChildrenInRange`, `FindChildren`, `VisibleRange`. Loops up the parents are recursive
functions on the objects; a loop that carries a value carries it in an accumulator
(`PlaceNext`, `Visited`), so that a stale value stays stale.

### KeepAlive

One object, Python threads (which have the interpreter lock, the GIL, during a
call), and threads of a C++ host that copy and destroy `Retainer`s without it.

| variable | code |
|---|---|
| `refs`, `alive`, `installed` | `_managed_ref_count`, "not deleted", `_external_keepalive_monitor` is set |
| `wrapper`, `keep`, `named` | the Python wrapper with its `managing_ptr`, `KeepaliveMonitor::_keep_alive`, the Python references |
| `stored`, `held` | the `Retainer`s of a container and of the hosts |
| `gil`, `pc`, `seen`, `borrowed` | the lock, where a thread is in a call, the count it was told, whether it took the lock itself |

A change of the count is one step, because the mutex is held; the call of the
monitor is two more (`Look` takes the GIL and reads the count; `Bind`, `Unbind` or
`LeaveAlone` acts on it), and other threads run before and between them. Reading
the monitor of a deleted object is undefined: `Stray` sets `touched` and the thread
goes nowhere.

### EditAlgorithm

A track is the sequence `kids` of records (`TrackItems`): a clip shows a range of a
media, a gap a range of nothing, a transition has two offsets. Each edit is an
operator from the track and the arguments to `[status, kids]`, on every path of
the function: `Overwrite` (with `OverwriteWithin`, `OverwriteAcross` and the two ways past
the ends), `Insert`, `Slice`, `Trim`, `Slip`, `Slide`, `Ripple`, `Roll`, `Fill` (by source, by
sequence, to fit), `RemoveAtTime`. Parts that several edits share are operators of
their own, as in the file: `WithoutTransitions`, `Refused`. The action `Do...` performs the
edit; the properties ask what the operator does with every argument in every
state. What clients append has a source range; a refused edit leaves what it had
done by then, as the code does.

### Flatten

The variables are those of `flatten_stack` and of the recursion below it: `tracks`
with the addresses of the tracks, `heap` with what is at each address, `ranges`
(`range_track_map`), `calls` (one record for each activation of
`_flatten_next_item`: its track, the next child, its trimmed copy), `flat` the result.
Before it, `Normalize` pads one track after the other (`seen` is how many were looked
at), and `Collect` lists them. An action is one turn of the loop over the children: `InsertChild` copies what is
visible, `LookBelow` goes into the track below with the range of the hole (the
next call trims a copy, `EnterTrimmed`, or takes the track as it is, `EnterWhole`),
`Leave` erases and frees. A copy may be put at any free address, so that an
address that was freed is soon used again.

### Document

Objects are records `[schema, origin, fields, extra, ...]`; a value is an atom, a
time, a vector, a dictionary or a pointer (`Ref`) to an object in `heap`.

| module | code |
|---|---|
| `SchemaRecords` | `ReadFields` and `WriteFields`: the keys of each class, in the order of its `read_from` and `write_to`, with the type and what happens where it is missing |
| `TypeRegistry` | the records that the constructor of `TypeRegistry` registers, aliases, `instance_from_schema`, the upgrade functions of Clip and Marker, the downgrade function of Clip |
| `Serialization` | `Writer::write` for every type, the stack of the cloning encoder, the JSON encoder as a sequence of tokens, `_downgrade_dictionary`, `is_equivalent_to` |
| `Deserialization` | the handlers of the JSON decoder, one token at a time, the resolver and its references, `Composition::read_from` and the other `read_from`s |
| `Document` | what is done: `clone`, `to_json_string` and back, `from_json`, `is_equivalent_to`; the setters of `Clip` before it |

One action is one call of the encoder or one token. A document that is written for
older versions has one writer for each object that is being downgraded, the one at
work last; it asks the child writer for its result (`DoAskChild`), with the error
that has left, and takes over the child's status (`Resume`), whether that is an error or
not. A cycle that is forgotten in this way leaves a key without a value in the text;
`NextToken` says what the parser makes of the pieces behind it, up to the first it cannot
take (`Misplaced`; the assertions of rapidjson, which stop a debug build there, are taken
to be off). When the text is at its end the resolver fills the objects in, in the order of
their addresses, which may be that of their making or the reverse (`Finalize`).

### Fractions, RationalTime and Timecode

Values and rates are exact fractions: `[whole, part]` for values, pairs for rates.
`RationalTime` has rescaling, arithmetic and comparison with the choice of rates of
each operator; `Timecode` has nearest rates, the three drop frame modes, labels
and time strings as sequences of fields. The state is one result of one client
(`kind`, `current`): a time that is shown, read, counted on, changed to another
rate, added to. `SecondsField` says what `%.7g` and the cut after it leave of a
fraction. The operators were compared with the compiled library.

### Containers

| variable | code |
|---|---|
| `holder` | who has the dictionary: a field of a C++ object, a value of another one, a proxy |
| `entries`, `mark` | the map, `_mutation_stamp` |
| `stamp` | of each proxy its `MutationStamp`: count, dictionary, whether it owns it |
| `cursor` | of each Python iterator its map iterator, its count, and (as history) the keys it owes |

Each method of `AnyDictionary` is an action that bumps or does not bump as the
method does; `Change` is what they share: which maps change, which stamps are bumped,
who dies, which iterators are left on a deleted node. `NewProxy`, `Reach`, `HandOver` and
`Release` are the bindings and `any_to_py`.

### SequenceProtocol

`kind` says which of the four containers it is, `list` what is in it. The operators
`InternalGet`, `InternalSet`, `InternalDel`, `InternalInsert` are the bindings, with their
adjustment of indices, their clamping and their comparisons as `size_t`;
`SetSlice`, `SetExtended`, `DeleteSlice` are the mixin; `Pop`, `RemoveValue`, `Turned` what Python's
`MutableSequence` makes of them. A loop of single calls is `InTurn`, which stops at the
first exception. An operator answers what the container holds and
whether an exception is raised. They were compared with the mixin itself, run on
mocked bindings.

## 4. The runs

Eleven runs pass, one shows a disagreement. A property that a run checks is often
a conjunction of named parts, each with its own comment in the module.

| run | question | instance |
|---|---|---|
| `forest` | With clients that honour every duty, clone included: do the three records implement the ordered forest, with no false member, no cycle, no leak? | 3 compositions, 1 leaf |
| `loops` | With clients that make cycles and remove at any index: do parents and lists still agree, is a refused call clean, is no child stolen? | 2 compositions, 1 leaf |
| `track` | Do the range queries agree, with each other and with the extent of the track; do transitions have material; do the bisections find what a linear search finds; is a trim an intersection? | a track of up to 4 of 3 items and 2 transitions |
| `nested` | Do a search through the levels and the transforms between time spaces agree? Where do searches in stacks, trims and searches below do what the documentation says? | 2 tracks, a stack, 2 items |
| `edits` | Does each edit do what it is for, and does the rest play on as before? | tracks of two children and what one edit makes of them |
| `flat` | Does the flat track show what the topmost track with something to show has, with its transitions, and is memory kept apart? | some 700 stacks of up to three tracks |
| `document` | Is a copy the same; are cycles refused, and nothing else; does a document for older versions keep what they can say; is what was read whole? | one object of every class, documents of five objects, files old and new, and every prefix of one |
| `timecode` | Do labels count on, does reading undo showing, is arithmetic exact? | 7 rates at the edges of minute, tenth minute, hour, day |
| `containers` | Do dictionaries and proxies agree in whatever order they go; is an iterator that is not refused safe and complete? | 3 dictionaries, 2 proxies, 1 iterator, 2 keys |
| `slices` | Does the mixin do what a list does; is a composition as before when it fails? | 4 kinds, up to 4 values, indices -5..4, steps -2..2 |
| `threads` | Is the count exact, does nothing leak, are attributes kept; does everybody who waits for the GIL in the monitor get it and return? | 1 Python thread, 2 hosts |
| `late` | (disagreement) Is the monitor called on a living object? | 2 threads |

What each found to hold, it holds where the premises of its properties say. They
are written as antecedents, with the case they leave out in the comment, and the
cases left out are in section 7.

### Bounds

* `Composition`: a move of a child needs two compositions, a grandchild or a cycle
  of three needs a third; a list of up to `Capacity = 3` children, a `set_children` of
  up to two, and indices from -3 to 2 reach both sides of both ends. `Copying`
  copies onto objects of the instance that do not exist yet; only structures that
  list every object once are copied. Objects of one class are interchangeable, so
  symmetry is sound; no run with symmetry checks liveness.
* `TimeSpace`: two items around a transition, and a transition at each end of a
  track, need three items and two transitions. Ranges of one, two and three frames,
  one that starts at 0 and others that do not, give overlaps, meeting ends and gaps
  at each edge of a search. `Frames` covers every time from before the first to
  after the last frame of these instances. Three levels (a track in a stack in a
  track) are where the walk up the parents differs from one step.
* `EditAlgorithm`: every edit looks at one item and its two neighbours, and the
  tracks that one edit leaves have up to four children, so that a child before,
  at and after the edit exists. `Times` go from before the track to beyond its end,
  `Deltas` from more than an item has to more than its media has. One media has an
  available range and one has none.
* `Flatten`: three tracks, because the second level of the recursion trims a copy
  of a track below a trimmed copy; the tracks are chosen so that holes begin, end
  and cut inside clips and transitions, with padding at the end and disabled clips.
  `Addresses` has room for all tracks that are in use together, and one that was freed
  is taken again.
* `Document`: `KeyOrder` has every key that occurs, files have each key once; objects
  are shared, null, unknown, and in a cycle by a list or a key, before or behind what is
  downgraded; `Versions` asks for nothing, for the
  oldest, and for one that nothing downgrades to. `edits` bounds the calls of setters
  (two, enough to set references and then the key). `Finalize` picks the object that
  has waited longest or shortest.
* `Timecode`: starts two frames before each place where counting is irregular, and
  `Span = 6` frames on from it; `Limit = 4` for sums. Rates asked for are at least 12.
* `Containers`: two proxies, because one may take a dictionary another left; three
  dictionaries, because a copy of one with a value needs a third address; two
  keys, because an iterator has a current and a next entry; `MaxCount = 2` is one
  bump of each stamp. A dictionary that is a value holds plain data and arrives empty.
* `SequenceProtocol`: four values and indices beyond both ends by one and more;
  what is assigned to a slice has up to two values.
* `KeepAlive`: a Python thread and two hosts give every pair that can meet (of two
  Python threads only one has the lock). The theorems of section 5 hold for any
  number. Nothing is capped: `refs` is bounded because a thread holds at most one
  `Retainer`.

### Fairness

Safety runs assume none. `threads` runs `FairSpec`, which assumes two things:

* strong fairness of `GiveGil` for each Python thread: the interpreter hands the GIL
  over between bytecodes when another thread waits for it;
* strong fairness of the monitor for each thread: the GIL is an operating system
  lock that is given to a thread that waits for it again and again, and a thread
  inside the monitor waits for nothing else.

Deadlock is checked except where the system may stop: `KeepAlive` (when the last
`Retainer` is gone), `Containers` and `EditAlgorithm` (when a bound is reached).

## 5. What is proved

For every value of the constants that satisfies the assumptions the modules name
(`KindsAssumption`, `ArgumentsAssumption`, `ThreadsAssumption`, `TimingAssumption`,
`EditAssumption`, `FlattenAssumption`, `ChildrenAssumption`, `SequenceAssumption`,
`ContainersAssumption`), which say what kind of thing each constant is and which sets are disjoint:

| theorem | module | statement |
|---|---|---|
| `TypeCorrect` | `CompositionProofs` | types; what is destroyed is in no list and has no parent |
| `OneParent` | `CompositionProofs` | under `replace_empty` and `distinct`: parents and lists agree, no dangling parent, one place for each object |
| `ChildrenAreNotStolen` | `CompositionProofs` | no call moves a child between living compositions |
| `HierarchyIsSound` | `CompositionProofs` | under all duties: the lookup sets claim no stranger, nothing is above itself, what is alive is reached from a client |
| `CompositionIsAForest` | `CompositionProofs` | under all duties: `Composition` implements `Forest` |
| `RefusalsAreClean` | `CompositionProofs` | a call that is refused changes nothing, whatever the clients do |
| `CountIsExact`, `NamesStayGood`, `HeldIsAlive` | `KeepAliveProofs` | the count is the number of `Retainer`s; whoever holds or names the object has it |
| `NothingLeaks` | `KeepAliveProofs` | when nobody holds the object it is gone |
| `DressedLasts` | `KeepAliveProofs` | attributes on the wrapper are there as long as the object |
| `PointersAreSound` | `ContainersProofs` | dictionary and stamp name each other or nothing; nothing is freed twice or leaked |
| `IterationStaysSound`, `RefusalIsForGood` | `ContainersProofs` | an iterator that is not refused is safe and complete; one that is refused stays so |
| `TypesHold` | `EditProofs` | every edit with any arguments leaves a track of known shape, longer by two children at most |
| `MediaClamps` | `EditProofs` | slip, slide and ripple show no frame the media has not |
| `SlicesPlayTheSame` | `EditProofs` | a slice plays the same, and an item begins at the cut |
| `InsertsMakeRoom` | `EditProofs` | an insert loses no frame and plays the new item at its time |
| `OverwritesReplace` | `EditProofs` | an overwrite plays the new item in its range, all else as before |
| `RestStays` | `EditProofs` | remove, fill, trim of a tail and roll of a head change nothing outside the items they name |
| `MemoryStaysSound` | `FlattenProofs` | inputs stay as they are, no use after free, ranges are those of the track that is at the address now |
| `TopmostShows` | `FlattenProofs` | with no transition at the end of a track: the flat track is as long as the longest and shows at each time what the topmost track that shows something has |
| `ListsStayProper` | `SequenceProofs` | a composition holds no child twice and none of another parent |
| `ChildrenAreKept` | `SequenceProofs` | no call loses or doubles a child; a slice assignment or reverse that fails is taken back |
| `IndicesAreALists` | `SequenceProofs` | with an index of the list, each call does what it does to a list |
| `SlicesAreALists` | `SequenceProofs` | a slice, with or without a step, assigned or deleted, leaves what it leaves of a list |
| `PlacesStayAgreed` | `TimeSpaceProofs` | the queries for ranges, for the extent of a track and for visible ranges agree |
| `SearchesAlwaysFind` | `TimeSpaceProofs` | the bisections find in a track what a look at every child finds |
| `TrimsAreIntersections` | `TimeSpaceProofs` | trimming a child to the source range of its track is intersection |
| `FoundWhereItIs`, `SpacesStayAgreed` | `TimeSpaceProofs` | at any depth, searches downwards, `range_of_child` and transforms agree |
| `SearchesKeepTheirWord` | `TimeSpaceProofs` | searches of stacks, trimming without source ranges, and searches below are as documented, where the code keeps it |
| `IntersectionIsCommonFrame`, `InclusiveEndIsLast`, `AllenIsPartition` | `TimeSpaceProofs` | the predicates of ranges that are not empty |

Some theorems have an assumption of their own. `Obligations = Duties` says that the
clients honour the four duties of section 3; where they do not, `loops` shows what is
left. `NullIsNoRange` (`TrimsAreIntersections`, `SearchesKeepTheirWord`, `MemoryStaysSound`,
`TopmostShows`) says that `nullopt` is not a `TimeRange`, and `NullIsNoFrame` (`TopmostShows`) that
it is not a frame, which a value without a type would leave open.

### The arguments

*The hierarchy, one call.* `ParentMatchesLists` is not inductive: it speaks of living objects,
and a step may make a dead object's records matter. `WellFormed` adds that lists
hold living objects only, that each list is injective, and that `parent[o] = c`
exactly when `c` lists `o`, for dead objects too. Each mutator is split in two:
`RelistWellFormed` for the change of one list and the parents it names, and
`SettleWellFormed` for the cascade, whose survivors are closed under lists by
`SurvivorsFacts`. `ListLemmas` says what `InsertAt`, `RemoveAt`, `ReplaceAt` and `Front`
do to the elements of an injective list. `CopyEffect` does the same for clone.

*The hierarchy, the whole.* `Forested` adds to that: no object is above itself, a lookup set
holds only what its list holds, and whatever is alive is held or in a living list. The last
does not say that a client reaches it; that follows because a climb through a finite set
without a cycle ends (`ClimbEnds`). "Above" is the least set closed under parents (`Above`),
so that no walk has to be unfolded. For the refinement, `SettlePrunes` shows that what
counting leaves is what `Prune` leaves: without cycles the largest set of objects that hold
each other is the set that is reached.

*The count.* `CountExact`, `NamesAreGood` and the types are proved together, as
`Counted`: that a count is above zero when it is decremented follows from whoever
makes the call (`NamedIsCounted`), by way of the wrapper if that is a Python
thread. Every action does one of three things to the number of retainers
(`NoneMore`, `OneMore`, `OneLess`).

*No leak.* `NoLeak` speaks of quiet states only, so its strengthening has to say
what happens in the others. `Guarded` says: only the thread with the GIL is between
reading the count and acting on it; a wrapper has a use (the monitor keeps it or
Python names it); and while the count is one and the monitor keeps the wrapper, or
is about to keep it on a count that it read earlier, some thread has yet to ask for
the count or has seen it at one (`Watched`). The case that needs it is a release
between `Look` and `Bind`.

*Attributes.* `Dressing`: a wrapper with attributes that the monitor does not keep, though the
count is above one, has a thread on its way to bind it (`Binds`); and who saw the wrapper
to be the only owner still finds it so when it acts (`LowIsLow`): whoever could add an
owner needs the GIL, or is an owner.

*Containers.* `Sound` has three parts. `Pointed`: stamps and dictionaries name each other or
nothing, and the count tells which (`CountsTell`). `Followed`: an iterator never began later
than the count of its proxy says; while it is not refused it stands in the proxy's
dictionary, and what it owes is there and before it. `NestedProperly`: a dictionary that is
a value has a place and no two places hold the same one, nothing is nested twice over, and
an address that is free has no entries left.

*Edits.* The types (`TypeOK`, with `Usable`: an item lasts for a positive time) are
inductive, and every property of a state follows from them. A track is taken apart at the
child that is edited: `Ahead`, the child, `Behind`; what it plays is what the three play
(`FramesJoin`, `ItemLasts`). An edit exchanges that child for another (`Reranged`, `SidesStay`), or puts
one to three in its place, and each lemma named `...Plays` says what is played then. What is
left is about films, sequences of frames, and no longer about tracks: an item that is split
plays the same (`SplitPlays`), and a film with a part exchanged is what `Replaced`
says (`ReplacedIs`, `ReplacedAtEnd`). That the edit happens where its time says rests on the same
facts about bisections as the time queries (`CutsAre`, `FoundAlone`, `FoundOne`,
`NothingBetween`), here for tracks whose transitions have no length of their own.

*Flattening.* `Tidy` says of every call on the stack where its track is: that of the first is
one of those flattened, that of each other is a copy at an address that no input, no
padded track and no other call has; what `ranges` says of it is right from the next
child on, and `ranges` has keys only for tracks of calls in progress. The last is what makes
an address that is used again harmless.

For what is shown, `Builds` goes on top of it. A track `Plays` a film between two times when
its children, laid end to end, show that film piece by piece; a copy that was padded or
trimmed plays the same film in its part (`PaddedPlays`, `TrimmedPlays`). Each call is `Underway`
in a part of the time in which no track above shows anything (`Hidden`); where one call ends, the
one that made it goes on (`Due`); and what is flattened so far plays the composite up to
where the latest call got (`Playing`). One lemma per action moves that forward, and in
the end the frames are those of the film (`FramesOfPlay`). The recursion becomes
an invariant of a stack: nothing has to be said of what a call returns.

*Sequences.* `Held` is the invariant; the work is in the loops. `InTurn` is a recursive function;
`LoopRuns` gives its equation, and each loop has an invariant on its turn: what deleting
the rest, or inserting the old values again, has reached. That putting the old children
back is never refused is what makes a failed assignment harmless. For slices the loops are
followed place by place (`CallsReach`): the indices of a slice lie inside the list and go one
way (`IndicesAre`, the one use of division: `QuotientFits`), so what the first turns do is not
undone by the later ones (`SetAllIs`), and deleting from the back leaves every value in front
of the next index at its place (`DeletedIs`). What is kept is the list that a one-to-one
enumeration of the kept places names (`EnumeratedAre`), which is how `ListWithout` is written. A
composition takes every value when the outcome holds none twice (`InjectiveIsFree`).

*Time.* `Placing` says of a state: types, with a timing for everything that is in a composition
(`Timed`); a child is listed once, by its parent (`Listed`); and parents rank above their
children (`Ranked`), which is what makes recursions over the hierarchy end. It is inductive:
a leaf that is appended ranks lowest, and a root that goes below another object has
everything outside its tree raised (`RootKeepsRanked`, by the guard of
`AppendComposition`). From `Placing` alone each property follows:

* `Duration`, `Climb`, `Top`, `Path` satisfy the equations they are written with (`DurationIs`, ...);
* children lie end to end, transitions on the edits (`TrackPlaces`), so starts and
  ends are sorted where transitions fit (`PlacesAreSorted`);
* `_bisect_left` and `_bisect_right` find the edge of what is sorted (`BisectLeftFinds`,
  `BisectRightFinds`), and two of them give a slice (`AllInFinds`);
* a step down and the step up undo each other (`OneStep`, `OneStepDown`), and with
  `DownInduction` a search through all levels agrees with the transforms;
* `find_children` ends because it goes down (`SearchRuns`); turn by turn its loop has found
  what searches of the single children find, and the range it carries along is the one it
  started with as long as a composition is to come (`PlacingSearches`).

*Induction.* The induction theorems of the library take an operator, which no prover
here can instantiate. The ones used here take a set: `Rounds` (a set of numbers that holds
0 and with `n` also `n + 1`), `SmallestNat`, `LoopRuns` and `RecursionRuns` (a recursive
function over numbers, or over anything with a rank, satisfies its equation), `UpInduction`
and `DownInduction` along the hierarchy.

## 6. What is only model-checked, and what is not modelled

Model-checked on the bounded instances only:

* `MonitorReturns`, a liveness property: the prover does not do fairness.
* `TransitionsStay` of `Flatten` compares the frames at either side of each transition, which
  `Builds` does not remember: a film has no transitions.
* `Timecode`: its counting is nonlinear arithmetic (division and remainder by rates that
  are variables), which the solver does not do.
* `Document` and what it uses have recursive operators, which the prover does not take.

Not modelled: the components with status `not_modelled` in `PROJECT.json`, each with
its reason. Of the modelled ones:

* image bounds and `has_clips`; `take_value` (its callers own an object that no other
  thread knows yet); time transforms between items of different hierarchies (the code
  reads through a null pointer; the model asks for two items of one hierarchy);
* more than one rate in `TimeRanges` and everything built on it, and the source range
  of a track that is edited or flattened;
* registration of schemas by clients, and from several threads;
* text: the encoder writes and the decoder reads tokens. Doubles: exact numbers;
* Python code that shrinks a container while iterating over it, or assigns a
  container to a slice of itself.

## 7. Deviations

Where the code does not do what a document, a comment or a test says, or plainly
does not do what it is for. The run `late` shows the first; the others were met
while translating, are left as they are in the models, and are the reason for the
premises of the properties.

**Reference counting.** The monitor is called after the mutex is released, possibly
on a deleted object (`serializableObject.cpp:241`).

**Hierarchy.**
* `read_from` does not fill `_child_set`: in a decoded or cloned composition `has_child`
  is false for every child (`composition.cpp:190`).
* `set_children` leaves the parent of the children it replaces (duty `replace_empty`),
  and given an orphan twice lists it twice (`composition.cpp:52`; "Instancing is not
  allowed", `tests/test_composition.py:963`; duty `distinct`).
* `remove_child` outside the list erases some other pointer from `_child_set`
  (`composition.cpp:152`; duty `in_range`).

**Time queries.**
* `child_at_time` bisects over the ends of a stack's children, which are in no order,
  and misses children (`composition.cpp:492`; `StackSearchIsOrdered`).
* `trimmed_range_of_child` fails for a child three levels down (`composition.cpp:390`;
  `NothingToTrim`).
* `find_children` with a range searches the second child composition with the range
  of the first (`composition.h:267`; `SearchIsPerChild`).
* `Stack::trimmed_range_of_child_at_index` answers with the start of the source range
  even where that passes the end of the child (`stack.cpp:113`).
* `time-ranges.md:107` says that a child trimmed away has no range; the code reports
  `INVALID_TIME_RANGE`, as `tests/test_composition.py:1273` expects.
* Two transitions next to each other, or longer than their neighbours, are not
  refused; the searches then miss children (premise `TransitionsFit`).

**Edits** (`algo/editAlgorithm.cpp`).
* `remove_child` is given a `Retainer`, which converts to `bool`: the child at index 1
  goes, whichever was meant (`:258` and where transitions are removed).
* Overwriting across several items leaves the right part of the last one only if
  exactly half of it is left; inside an item, a new item longer than the range gets
  the old item's source start.
* The second half of an item split by `insert` starts later than the first half
  ends; `slice` puts it behind the wrong child if the transition before it was removed.
* `trim` with a head changes the clip before ("Do not affect other clips"); a gap after
  a tail that shrinks gets shorter; growing into a gap makes the track longer.
* `slide` and `ripple` clamp by length only; a ripple to before the start of the media
  jumps to 0. `roll` clamps the wrong way (a duration may become negative), and a tail
  that is rolled shifts all that follows ("End time in parent of Item after input item
  will never change", `editAlgorithm.h`; the tests expect the shift).
* `fill` to fit makes a plain item, without the media.
* `trim`, `slide` and `roll` dereference null where the neighbour is a transition;
  `insert` under a transition, or an overwrite that is refused, may already have removed
  children.

**Flattening.** Source ranges of the tracks are ignored. A transition that reaches
exactly to the edge of a hole is refused as if it were cut. A track that begins or ends
with a transition counts half of it for its length, so the padding falls short and the flat
track may end early (`ShowsTheTopmost` leaves such tracks out). Disabled clips are holes,
but not on the bottom track.

**Serialization.**
* `clone` returns an object although the resolver reported an error ("If the operation
  fails, nullptr is returned").
* An error of the document is forgotten when an object is downgraded after it
  (`serialization.cpp:1077`): a collection `[itself, clip]` saved for clips of version 1 is
  written without an error and without its first child, or, where the cycle is a value in
  metadata, as a text that is no JSON or reads as something else ("That's a cycle",
  `serialization.cpp:1017`; `tests/test_serializable_object.py:128`). `CycleRefused` says when
  cycles are still refused, and `ActiveReferenceSurvives` speaks
  of documents without cycles.
* A text with an object of schema `UnknownSchema` ends the program (`typeRegistry.cpp:51`).
* A null in a list of objects ends the list, with `TYPE_MISMATCH`.
* After a downgrade that failed the object stays in the set of objects being written,
  and the next meeting is an `OBJECT_CYCLE`; the child encoder keeps its error.
* A manifest that names a schema nobody registered is read through a null record.
* A metadata dictionary with the key `OTIO_SCHEMA` becomes an object in a clone.
* Objects made for a version that is too new are not freed; an object that is decoded
  and then dropped leaves its address in the resolver (such texts are left out).
* A file that could not be written to its end is left there.
* `ImageSequenceReference::read_from` goes on after a missing-frame policy it could not read.
* Upgrade functions are chosen by `schema_version <= e.first`, which is not what
  `typeRegistry.h:95` says; an alias copies the record without its functions.

**Opentime.**
* `from_time_string` refuses a leading sign, which `rationalTime.h:214` allows, and accepts
  `-:5`. `to_time_string` prints the remains of an exponent for fractions of a second
  below 1/10000, and does not carry a fraction that rounds to one.
* The test for a near rate takes an integer `abs`: rates up to 1 away are snapped. The
  array of rates has an eleventh slot, 0, to which small rates are snapped.
* `to_nearest_timecode` uses the nearest rate only if it is given an error status.
* 29.97, 47.952 and 59.94 without drop frames roll over before 24:00:00:00.
* `from_timecode` accepts labels that drop frame counting leaves out, and 60 or more
  minutes and seconds.
* Applying a transform to a transform is composition only if the scale is 1.

**Containers.** `anyDictionary.h:16` says that inserting bumps the stamp; it does not. It does
no harm: `IterationIsSound`. Move assignment copies.

**Python sequences** (`core/_core_utils.py`).
* Deleting a slice with a negative step deletes other values (`:300`); assigning to a slice
  with a negative start inserts in the wrong place (`:253`).
* Assigning to a slice of an `AnyVector` deletes, then raises `TypeError` (`:257`).
* Assigning to an extended slice of a composition always raises: the method it calls
  is misspelled (`:284`). `reverse()` of a composition with two children raises.
* Far negative indices append in `insert`, and an index past the end deletes the last
  value, in `AnyVector` and the proxies; the other two adjust an index twice.
* `v[0:1] = v` does not end; `co[:] = co` loses the children.
* Iterators test for equality with the size only: removing children in the loop over
  them reads past the end (`anyVector.h:22` says they are safe), and the iterator of a
  composition does not keep it alive.
