----------------------------- MODULE Collector -----------------------------
(***************************************************************************)
(* Mark and sweep (heap/collect.rs) over the objects of an arena, with the *)
(* references a program may hold and the moments a collection is allowed   *)
(* at: weak collections (heap/collection.rs), WeakRef and                  *)
(* FinalizationRegistry (heap/weak_ref.rs), the schedule of vm/mod.rs.     *)
(*                                                                         *)
(* An object is abstracted to the handles it leads to: whatever is marked  *)
(* unconditionally (prototype, properties, closed-over environment, ...)   *)
(* is its `links`, and environments, Strings, Symbols and BigInts are      *)
(* objects like the others.                                                *)
(***************************************************************************)
EXTENDS Arena, FiniteSetsExt

CONSTANTS Kinds,          \* the kinds of object the program makes
          MaxReferences,  \* bound: links, entries and cells there are at a time
          MaxCarried      \* bound: handles carried across drains at a time

ASSUME CollectorAssumption ==
    /\ Kinds \subseteq {"plain", "weakMap", "weakRef", "registry"}
    /\ {MaxReferences, MaxCarried} \subseteq Nat

VARIABLES kind,     \* what each object is
          links,    \* the handles it leads to unconditionally
          entries,  \* of a weak collection, or the cells of a registry
          target,   \* of a WeakRef
          held,     \* Vm::roots, what the program can name
          locals,   \* handles a native function has only in Rust locals
          native,   \* whether a native is running a script: Vm.reentries > 0
          carried,  \* handles only callers of a drain have, and what for
          stale     \* what the program was handed back after it had gone

Objects == Values   \* identities, each of one object ever made
contents == <<kind, links, entries, target>>
vars == <<arenaVars, contents, held, locals, native, carried, stale>>

(* A cell of a registry keeps what it would hand over, if the registry     *)
(* itself is kept, and is keyed by its target as an entry is by its key.   *)
Entries == [key : Handles, value : Handles]

(* What Rust carries handles across a drain for: Carry.                    *)
Uses == {"call", "answer"}

TypeOK == /\ ArenaTypeOK
          /\ kind \in [Objects -> Kinds \cup {"plain"}]
          /\ links \in [Objects -> SUBSET Handles]
          /\ entries \in [Objects -> SUBSET Entries]
          /\ target \in [Objects -> Handles \cup {None}]
          /\ held \subseteq Handles
          /\ locals \subseteq Handles
          /\ native \in BOOLEAN
          /\ carried \subseteq Uses \X Handles
          /\ stale \subseteq Handles

Init == /\ ArenaInit
        /\ kind = [o \in Objects |-> "plain"]
        /\ links = [o \in Objects |-> {}]
        /\ entries = [o \in Objects |-> {}]
        /\ target = [o \in Objects |-> None]
        /\ held = {}
        /\ locals = {}
        /\ native = FALSE
        /\ carried = {}
        /\ stale = {}

-----------------------------------------------------------------------------
(* Marking.  A mark is on a slot.                                          *)

Occupied == {i \in DOMAIN slots : slots[i] # None}
Slot(h) == h[1]

(* The handles an object leads to however it was reached.                  *)
Strong(o) == links[o] \cup
    (IF kind[o] = "registry" THEN {cell.value : cell \in entries[o]} ELSE {})

(* mark_value, mark_object: the slots of some handles and of everything    *)
(* they lead to.                                                           *)
Onward(handles) ==
    handles \cup UNION {Strong(Get(h)) : h \in {r \in handles : Get(r) # None}}
Walk(handles) ==
    LET reached[n \in 0..MaxSlots] ==
            IF n = 0 THEN handles ELSE Onward(reached[n - 1])
    IN  {Slot(h) : h \in reached[MaxSlots]}

(* mark_weak_entries looks into every weak collection the arena holds,     *)
(* whether or not the walk reached it.                                     *)
WeakEntries ==
    UNION {entries[slots[i]] : i \in {j \in Occupied : kind[slots[j]] = "weakMap"}}

(* The value of an entry is marked once its key is.  The code goes through *)
(* the entries in the order of their slots and one key it has just reached *)
(* counts for the next entry; the passes are repeated until one marks      *)
(* nothing, so where they end does not depend on the order.                *)
WeakPass(marked) ==
    marked \cup UNION {Walk({e.value}) :
                          e \in {f \in WeakEntries : Slot(f.key) \in marked}}
MarkWeakOnce(marked) == WeakPass(marked)
MarkWeak(marked) ==
    LET after[n \in 0..MaxSlots] ==
            IF n = 0 THEN marked ELSE WeakPass(after[n - 1])
    IN  after[MaxSlots]

(* An entry or a cell whose key was not reached goes before the sweep, and *)
(* what a freed object held goes with it.                                  *)
PruneByValue(marked) ==
    LET kept == {slots[i] : i \in marked}
        Stays(e) == Slot(e.key) \in marked /\ Slot(e.value) \in Walk(held)
    IN  /\ entries' = [o \in Objects |->
                         IF o \in kept THEN {e \in entries[o] : Stays(e)} ELSE {}]
        /\ links' = [o \in Objects |-> IF o \in kept THEN links[o] ELSE {}]
Prune(marked) ==
    LET kept == {slots[i] : i \in marked}
        Stays(e) == Slot(e.key) \in marked
    IN  /\ entries' = [o \in Objects |->
                         IF o \in kept THEN {e \in entries[o] : Stays(e)} ELSE {}]
        /\ links' = [o \in Objects |-> IF o \in kept THEN links[o] ELSE {}]

-----------------------------------------------------------------------------
(* What a program does.  `held` grows by what it reads and makes, and      *)
(* shrinks when it forgets.                                                *)

Unused == Objects \ {p[2] : p \in issued}

(* `new`: of each kind, and of a WeakRef to something held.                *)
Make(k, t) ==
    /\ Unused # {}
    /\ LET o == CHOOSE u \in Unused : TRUE
       IN  /\ Place(o)
           /\ kind' = [kind EXCEPT ![o] = k]
           /\ target' = [target EXCEPT ![o] = t]
           /\ held' = held \cup {p[1] : p \in issued' \ issued}
    /\ UNCHANGED <<links, entries, locals, native, carried, stale>>
New(k) == k \in Kinds \ {"weakRef"} /\ Make(k, None)
NewRef(t) == "weakRef" \in Kinds /\ t \in held /\ Make("weakRef", t)

(* Bound.                                                                  *)
RoomForOne ==
    LET count(o) == Cardinality(links[o]) + Cardinality(entries[o])
    IN  MapThenSumSet(count, Objects) < MaxReferences

Link(h, to) ==
    /\ {h, to} \subseteq held
    /\ kind[Get(h)] = "plain"
    /\ RoomForOne
    /\ links' = [links EXCEPT ![Get(h)] = @ \cup {to}]
    /\ UNCHANGED <<arenaVars, kind, entries, target, held, locals, native, carried, stale>>

Unlink(h, to) ==
    /\ h \in held
    /\ to \in links[Get(h)]
    /\ links' = [links EXCEPT ![Get(h)] = @ \ {to}]
    /\ UNCHANGED <<arenaVars, kind, entries, target, held, locals, native, carried, stale>>

(* place: the entry of a key is replaced, or one is added.                 *)
Put(h, key, value) ==
    /\ {h, key, value} \subseteq held
    /\ kind[Get(h)] = "weakMap"
    /\ (\E e \in entries[Get(h)] : e.key = key) \/ RoomForOne
    /\ entries' = [entries EXCEPT ![Get(h)] =
                      {e \in @ : e.key # key} \cup {[key |-> key, value |-> value]}]
    /\ UNCHANGED <<arenaVars, kind, links, target, held, locals, native, carried, stale>>

(* register refuses a target it would itself keep.                         *)
Register(h, t, value) ==
    /\ {h, t, value} \subseteq held
    /\ kind[Get(h)] = "registry"
    /\ t # value
    /\ RoomForOne
    /\ entries' = [entries EXCEPT ![Get(h)] =
                      @ \cup {[key |-> t, value |-> value]}]
    /\ UNCHANGED <<arenaVars, kind, links, target, held, locals, native, carried, stale>>

Read(h) ==
    /\ h \in held
    /\ \E to \in links[Get(h)] : held' = held \cup {to}
    /\ UNCHANGED <<arenaVars, contents, locals, native, carried, stale>>

Lookup(h) ==
    /\ h \in held
    /\ kind[Get(h)] = "weakMap"
    /\ \E e \in entries[Get(h)] :
          e.key \in held /\ held' = held \cup {e.value}
    /\ UNCHANGED <<arenaVars, contents, locals, native, carried, stale>>

(* deref: the target if its handle still names something.                  *)
Deref(h) ==
    /\ h \in held
    /\ kind[Get(h)] = "weakRef"
    /\ Get(target[Get(h)]) # None
    /\ held' = held \cup {target[Get(h)]}
    /\ UNCHANGED <<arenaVars, contents, locals, native, carried, stale>>

Forget(h) ==
    /\ h \in held
    /\ held' = held \ {h}
    /\ UNCHANGED <<arenaVars, contents, locals, native, carried, stale>>

(* A native reads values into Rust locals and then calls a script, as      *)
(* Array.prototype.sort does; when it returns the script has them again.   *)
NativeReads(h) ==
    /\ h \in held
    /\ native' = TRUE
    /\ links[Get(h)] # {}
    /\ locals' = locals \cup links[Get(h)]
    /\ UNCHANGED <<arenaVars, contents, held, carried, stale>>

NativeReturns ==
    /\ native
    /\ native' = FALSE
    /\ held' = held \cup locals
    /\ locals' = {}
    /\ UNCHANGED <<arenaVars, contents, carried, stale>>

(* What is under way around a run of scripts or a drain, with nothing      *)
(* re-entered, keeps handles in Rust locals that no root names.  Some it   *)
(* will only call or ask: the capability of an import() whose job has been *)
(* taken, the promise of an asynchronous module.  Others it hands back as  *)
(* they are: what a run threw and nothing caught, the completion value an  *)
(* import() puts back, the answer of an asynchronous module.               *)
Carry(use, h) ==
    /\ ~native
    /\ h \in held
    /\ Cardinality(carried) < MaxCarried
    /\ carried' = carried \cup {<<use, h>>}
    /\ UNCHANGED <<arenaVars, contents, held, locals, native, stale>>

(* A capability that has gone is not callable, and that is the end of it;  *)
(* an answer is what it was, whether or not it still names anything.       *)
HandBack(use, h) ==
    LET lost == {x \in {h} : Get(x) = None}
    IN  /\ ~native
        /\ <<use, h>> \in carried
        /\ carried' = carried \ {<<use, h>>}
        /\ held' = held \cup ({h} \ lost)
        /\ stale' = IF use = "answer" THEN lost ELSE {}
        /\ UNCHANGED <<arenaVars, contents, locals, native>>

(* With such an answer in hand the next collection may stop at whatever is *)
(* in its slot by then, for a mark is on a slot (mark_object), and nothing *)
(* is certain any more.  The model follows a program only to the point     *)
(* where it has the answer, and on from where it has dropped it.           *)
Drop(h) ==
    /\ stale' = stale \ {h}
    /\ UNCHANGED <<arenaVars, contents, held, locals, native, carried>>

-----------------------------------------------------------------------------

(* A collection: between instructions where nothing is re-entered, between *)
(* two jobs or between two runs (DR-0023).  The drain does not look at     *)
(* `reentries`, and need not: it is reached only where a run or the        *)
(* evaluation of a module stops, with no native running a script.          *)
CollectAnywhere ==
    LET marked == MarkWeak(Walk(held))
    IN  /\ Prune(marked)
        /\ Sweep(marked)
        /\ UNCHANGED <<kind, target, held, locals, native, carried, stale>>
Collect ==
    LET marked == MarkWeak(Walk(held))
    IN  /\ ~native
        /\ Prune(marked)
        /\ Sweep(marked)
        /\ UNCHANGED <<kind, target, held, locals, native, carried, stale>>

Proceed ==
    \/ \E k \in Kinds : New(k)
    \/ \E t \in held : NewRef(t)
    \/ \E h, to \in held : Link(h, to)
    \/ \E h \in held : \E to \in links[Get(h)] : Unlink(h, to)
    \/ \E h, key, value \in held : Put(h, key, value) \/ Register(h, key, value)
    \/ \E h \in held : Read(h) \/ Lookup(h) \/ Deref(h) \/ Forget(h) \/ NativeReads(h)
    \/ NativeReturns
    \/ \E use \in Uses : \E h \in held : Carry(use, h)
    \/ \E c \in carried : HandBack(c[1], c[2])
    \/ Collect

Next == \/ stale = {} /\ Proceed
        \/ \E h \in stale : Drop(h)

Spec == Init /\ [][Next]_vars

-----------------------------------------------------------------------------

(* Whatever a program, a native running a script or a live object can      *)
(* reach by asking is still there: none of their handles is stale, but a   *)
(* WeakRef's and, as the code is, one answer (`stale`) that went while     *)
(* only Rust had it and was handed back: an escaped throw (vm/mod.rs:947), *)
(* a module's completion value (vm/module.rs:298, :452).                   *)
Followed(o) ==
    links[o] \cup {e.key : e \in entries[o]} \cup {e.value : e \in entries[o]}
NoDangling ==
    /\ \A h \in held \cup locals : Get(h) # None
    /\ \A i \in Occupied : \A h \in Followed(slots[i]) : Get(h) # None

(* Where a drain collects "no native holds anything" (vm/jobs.rs:141):     *)
(* what Rust carries across it is still there.  The code breaks this.      *)
CarriedIsThere == \A c \in carried : Get(c[2]) # None

(* The sets of slots closed under what the language calls reachable, a     *)
(* value in a weak collection of `maps` being reached through its key.     *)
Closed(S, maps) ==
    /\ {Slot(h) : h \in held} \subseteq S
    /\ \A i \in S : {Slot(h) : h \in Strong(slots[i])} \subseteq S
    /\ \A i \in maps : \A e \in entries[slots[i]] :
          Slot(e.key) \in S => Slot(e.value) \in S
Maps(S) == {i \in S : kind[slots[i]] = "weakMap"}

(* What a program can still reach, through the maps it can reach.          *)
Reachable ==
    {i \in Occupied : \A S \in SUBSET Occupied : Closed(S, Maps(S)) => i \in S}

(* The same, if every map the arena holds could be reached.                *)
ReachableByAnyMap ==
    {i \in Occupied : \A S \in SUBSET Occupied : Closed(S, Maps(Occupied)) => i \in S}

(* A collection frees nothing a program can reach, and keeps nothing but   *)
(* that and the values of entries whose key is alive.                      *)
Collecting == UNCHANGED <<held, issued, native>> /\ Collect
CollectsExactly ==
    [][Collecting =>
                  /\ \A i \in Reachable : slots'[i] = slots[i]
                  /\ Occupied' = ReachableByAnyMap]_vars

(* An entry or a cell leaves a collection that is still there only because *)
(* its key has gone, or to be replaced: a key that lives is still found.   *)
EntriesFollowKeys ==
    [][\A i \in Occupied \cap Occupied' :
          \A e \in entries[slots[i]] :
              \/ Get(e.key)' = None
              \/ \E f \in entries'[slots[i]] : f.key = e.key]_vars
=============================================================================
