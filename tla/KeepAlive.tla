-------------------------------- MODULE KeepAlive ------------------------------
(* One SerializableObject shared by Python threads and by C++ threads of the   *)
(* host application.  C++ counts Retainers under the object's mutex; Python    *)
(* counts references to a wrapper that is itself one Retainer.  The keepalive  *)
(* monitor couples the two: while C++ holds the object, it holds the wrapper,  *)
(* so that attributes set from Python last as long as the object.  The mutex   *)
(* is let go before the monitor takes the interpreter lock (GIL), so other     *)
(* threads run in between.                                                     *)
EXTENDS Naturals, FiniteSets

CONSTANTS
    Pythons,    \* threads that run Python: the GIL is theirs during a call
    Hosts,      \* threads of the host application, without the GIL
    NONE

ASSUME ThreadsAssumption ==
    /\ IsFiniteSet(Pythons) /\ IsFiniteSet(Hosts)
    /\ Pythons \cap Hosts = {} /\ NONE \notin Pythons \cup Hosts

Threads == Pythons \cup Hosts

VARIABLES
    refs,       \* _managed_ref_count
    alive,      \* not deleted
    installed,  \* _external_keepalive_monitor is set
    wrapper,    \* there is a Python wrapper, with its managing_ptr
    keep,       \* KeepaliveMonitor::_keep_alive refers to the wrapper
    dressed,    \* the wrapper has attributes that only Python knows
    named,      \* the Python threads with a reference to the wrapper
    stored,     \* a container that Python threads use holds a Retainer
    held,       \* the hosts with a Retainer
    gil,        \* the thread that has the GIL
    pc,         \* where each thread is in a call on the object
    seen,       \* the count that current_ref_count gave the monitor
    borrowed,   \* the monitor took the GIL and gives it back
    touched     \* freed memory was read

object == <<refs, alive, installed, wrapper, keep, dressed>>
owners == <<named, stored, held>>
vars == <<refs, alive, installed, wrapper, keep, dressed, named, stored, held,
          gil, pc, seen, borrowed, touched>>

--------------------------------------------------------------------------------
(* Counting.  The thread that makes the count go from one to two, or back to   *)
(* one, then calls the monitor if there is one.                                *)

\* _managed_retain by thread t.
Retained(t) ==
    /\ refs' = refs + 1
    /\ pc' = [pc EXCEPT ![t] = IF refs = 1 /\ installed THEN "notify" ELSE "idle"]

\* _managed_release by thread t: the last one deletes the object.
Released(t) ==
    /\ refs' = refs - 1
    /\ alive' = (refs > 1)
    /\ pc' = [pc EXCEPT ![t] = IF refs = 2 /\ installed THEN "notify" ELSE "idle"]

--------------------------------------------------------------------------------
(* Python threads.                                                             *)

\* A Python thread between two calls.
Running(t) == t \in Pythons /\ gil = t /\ pc[t] = "idle"

TakeGil(t) ==
    /\ t \in Pythons /\ gil = NONE /\ pc[t] = "idle"
    /\ gil' = t
    /\ UNCHANGED <<object, owners, pc, seen, borrowed, touched>>

GiveGil(t) ==
    /\ Running(t)
    /\ gil' = NONE
    /\ UNCHANGED <<object, owners, pc, seen, borrowed, touched>>

\* A Python thread gets the object from the container.  Where there is no wrapper,
\* a new one with its managing_ptr is made, which installs the monitor.
Get(t) ==
    /\ Running(t) /\ stored /\ t \notin named
    /\ named' = named \cup {t}
    /\ wrapper' = TRUE
    /\ IF wrapper THEN UNCHANGED <<refs, pc, installed>>
                  ELSE Retained(t) /\ installed' = TRUE
    /\ UNCHANGED <<alive, keep, dressed, stored, held, gil, seen, borrowed, touched>>

\* The last reference takes the wrapper, and its Retainer, with it.
Drop(t) ==
    /\ Running(t) /\ t \in named
    /\ named' = named \ {t}
    /\ IF named = {t} /\ ~keep
       THEN Released(t) /\ wrapper' = FALSE /\ dressed' = FALSE
       ELSE UNCHANGED <<refs, alive, pc, wrapper, dressed>>
    /\ UNCHANGED <<installed, keep, stored, held, gil, seen, borrowed, touched>>

\* The container, and a host, are given a Retainer by a call from Python.
Store(t) ==
    /\ Running(t) /\ t \in named /\ ~stored
    /\ stored' = TRUE
    /\ Retained(t)
    /\ UNCHANGED <<alive, installed, wrapper, keep, dressed, named, held, gil, seen, borrowed, touched>>

Lend(t, h) ==
    /\ Running(t) /\ t \in named /\ h \in Hosts \ held /\ pc[h] = "idle"
    /\ held' = held \cup {h}
    /\ Retained(t)
    /\ UNCHANGED <<alive, installed, wrapper, keep, dressed, named, stored, gil, seen, borrowed, touched>>

Unstore(t) ==
    /\ Running(t) /\ stored
    /\ stored' = FALSE
    /\ Released(t)
    /\ UNCHANGED <<installed, wrapper, keep, dressed, named, held, gil, seen, borrowed, touched>>

\* Mutant: an attribute is set and the monitor is not asked to look.
Dress_Quiet(t) ==
    /\ Running(t) /\ t \in named
    /\ dressed' = TRUE
    /\ UNCHANGED <<refs, alive, installed, wrapper, keep, owners, gil, pc, seen, borrowed, touched>>

\* SerializableObject.__setattr__: the attribute, then the monitor with apply_now.
Dress(t) ==
    /\ Running(t) /\ t \in named
    /\ dressed' = TRUE /\ installed' = TRUE
    /\ pc' = [pc EXCEPT ![t] = "notify"]
    /\ UNCHANGED <<refs, alive, wrapper, keep, owners, gil, seen, borrowed, touched>>

--------------------------------------------------------------------------------
(* Hosts copy and destroy Retainers without the GIL.                           *)

Copy(h, g) ==
    /\ g \in held /\ h \in Hosts \ held /\ pc[h] = "idle"
    /\ held' = held \cup {h}
    /\ Retained(h)
    /\ UNCHANGED <<alive, installed, wrapper, keep, dressed, named, stored, gil, seen, borrowed, touched>>

Release(h) ==
    /\ h \in held /\ pc[h] = "idle"
    /\ held' = held \ {h}
    /\ Released(h)
    /\ UNCHANGED <<installed, wrapper, keep, dressed, named, stored, gil, seen, borrowed, touched>>

--------------------------------------------------------------------------------
(* KeepaliveMonitor::monitor.  The mutex is not held here.                     *)

\* With the GIL, ask the object for its count.
Look(t) ==
    /\ pc[t] = "notify" /\ gil \in {NONE, t} /\ alive
    /\ gil' = t
    /\ borrowed' = [borrowed EXCEPT ![t] = @ \/ gil = NONE]
    /\ seen' = [seen EXCEPT ![t] = refs]
    /\ pc' = [pc EXCEPT ![t] = "act"]
    /\ UNCHANGED <<object, owners, touched>>

\* The monitor is a member of the object, and so is what it refers to: after
\* "delete this" in another thread it runs in freed memory, to no defined end.
Stray(t) ==
    /\ \/ pc[t] = "notify" /\ gil \in {NONE, t}
       \/ pc[t] = "act"
    /\ ~alive
    /\ touched' = TRUE
    /\ pc' = [pc EXCEPT ![t] = "undefined"]
    /\ UNCHANGED <<object, owners, gil, seen, borrowed>>

\* Mutant: the GIL does not go back.
Return_Keeps(t) ==
    /\ UNCHANGED gil
    /\ borrowed' = [borrowed EXCEPT ![t] = FALSE]

\* The monitor returns; the GIL goes back if the monitor took it.
Return(t) ==
    /\ gil' = IF borrowed[t] THEN NONE ELSE gil
    /\ borrowed' = [borrowed EXCEPT ![t] = FALSE]

\* Mutant: a new wrapper does not retain the object.
Bind_Uncounted(t) ==
    /\ pc[t] = "act" /\ alive /\ seen[t] > 1 /\ ~keep
    /\ keep' = TRUE /\ wrapper' = TRUE
    /\ pc' = [pc EXCEPT ![t] = "idle"]
    /\ Return(t)
    /\ UNCHANGED <<refs, alive, installed, dressed, owners, seen, touched>>

\* Shared: the monitor refers to the wrapper, a new one if there is none.
Bind(t) ==
    /\ pc[t] = "act" /\ alive /\ seen[t] > 1 /\ ~keep
    /\ keep' = TRUE /\ wrapper' = TRUE
    /\ refs' = IF wrapper THEN refs ELSE refs + 1
    /\ pc' = [pc EXCEPT ![t] = "idle"]
    /\ Return(t)
    /\ UNCHANGED <<alive, installed, dressed, owners, seen, touched>>

\* Mutant: the reference is kept.
Unbind_Not(t) ==
    /\ pc[t] = "act" /\ alive /\ seen[t] <= 1 /\ keep
    /\ pc' = [pc EXCEPT ![t] = "idle"]
    /\ Return(t)
    /\ UNCHANGED <<object, owners, seen, touched>>

\* Mutant: the wrapper dies although Python names it.
Unbind_Named(t) ==
    /\ pc[t] = "act" /\ alive /\ seen[t] <= 1 /\ keep
    /\ keep' = FALSE
    /\ Released(t) /\ wrapper' = FALSE /\ dressed' = FALSE
    /\ IF pc'[t] = "idle" THEN Return(t) ELSE UNCHANGED <<gil, borrowed>>
    /\ UNCHANGED <<installed, owners, seen, touched>>

\* Unique: the monitor lets go of the wrapper.  If nobody in Python names it, it
\* dies and releases the object; if that makes the count one the monitor is
\* called again.
Unbind(t) ==
    /\ pc[t] = "act" /\ alive /\ seen[t] <= 1 /\ keep
    /\ keep' = FALSE
    /\ IF named = {}
       THEN Released(t) /\ wrapper' = FALSE /\ dressed' = FALSE
       ELSE /\ pc' = [pc EXCEPT ![t] = "idle"]
            /\ UNCHANGED <<refs, alive, wrapper, dressed>>
    /\ IF pc'[t] = "idle" THEN Return(t) ELSE UNCHANGED <<gil, borrowed>>
    /\ UNCHANGED <<installed, owners, seen, touched>>

LeaveAlone(t) ==
    /\ pc[t] = "act" /\ alive /\ (seen[t] > 1 <=> keep)
    /\ pc' = [pc EXCEPT ![t] = "idle"]
    /\ Return(t)
    /\ UNCHANGED <<object, owners, seen, touched>>

Monitor(t) == Look(t) \/ Stray(t) \/ Bind(t) \/ Unbind(t) \/ LeaveAlone(t)

--------------------------------------------------------------------------------

\* Made by Python, or made by C++ (clone, from_json) and in a container.
Init ==
    \E t \in Pythons, fromPython \in BOOLEAN :
        /\ refs = 1 /\ alive = TRUE /\ keep = FALSE /\ dressed = FALSE /\ held = {}
        /\ installed = fromPython /\ wrapper = fromPython
        /\ named = IF fromPython THEN {t} ELSE {}
        /\ stored = ~fromPython
        /\ gil = NONE
        /\ pc = [u \in Threads |-> "idle"]
        /\ seen = [u \in Threads |-> 0]
        /\ borrowed = [u \in Threads |-> FALSE]
        /\ touched = FALSE

Next ==
    \/ \E t \in Pythons :
        \/ TakeGil(t) \/ GiveGil(t)
        \/ Get(t) \/ Drop(t) \/ Store(t) \/ Unstore(t) \/ Dress(t)
        \/ \E h \in Hosts : Lend(t, h)
    \/ \E h \in Hosts : Release(h) \/ \E g \in Hosts : Copy(h, g)
    \/ \E t \in Threads : Monitor(t)

Spec == Init /\ [][Next]_vars

\* A Python thread gives the GIL up between two calls when others wait for it, and a
\* thread that waits for it gets it at last; a thread in the monitor goes on.
Fairness ==
    /\ \A t \in Pythons : SF_vars(GiveGil(t))
    /\ \A t \in Threads : SF_vars(Monitor(t))

FairSpec == Spec /\ Fairness

--------------------------------------------------------------------------------
(* Properties.                                                                 *)

TypeOK ==
    /\ refs \in Nat
    /\ alive \in BOOLEAN /\ installed \in BOOLEAN /\ wrapper \in BOOLEAN
    /\ keep \in BOOLEAN /\ dressed \in BOOLEAN /\ stored \in BOOLEAN /\ touched \in BOOLEAN
    /\ named \subseteq Pythons /\ held \subseteq Hosts
    /\ gil \in Threads \cup {NONE}
    /\ pc \in [Threads -> {"idle", "notify", "act", "undefined"}]
    /\ seen \in [Threads -> Nat]
    /\ borrowed \in [Threads -> BOOLEAN]

Count(b) == IF b THEN 1 ELSE 0

\* The count is the number of Retainers there are, the wrapper's included, and
\* the object is deleted exactly when there are none.
CountExact ==
    /\ refs = Count(wrapper) + Count(stored) + Cardinality(held)
    /\ alive <=> refs > 0

\* The monitor, and each thread with a name for the wrapper, has a wrapper.
NamesAreGood == (keep \/ named # {}) => wrapper

\* No thread looks at the object after it is deleted ("we know we have a
\* monitor", serializableObject.cpp).
NoUseAfterFree == ~touched

Quiet == \A t \in Threads : pc[t] = "idle"

\* When nobody holds the object, nothing of it is left: the monitor does not keep
\* the wrapper, and the wrapper the object, for ever (test_multithreading.py ends
\* with the weak references dead).
NoLeak == Quiet /\ ~stored /\ held = {} /\ named = {} => ~alive

\* The attributes that Python set are lost only when C++ does not hold the object:
\* the wrapper a container gives out again is the one that was dressed.
AttributesLast == [][dressed /\ ~dressed' => ~stored' /\ held' = {}]_vars

\* A thread that calls the monitor returns from it (unless memory is corrupted
\* first): threads that wait for the GIL inside a retain or a release do not wait
\* for each other.
MonitorReturns == \A t \in Threads : pc[t] = "notify" ~> pc[t] = "idle" \/ touched

================================================================================
