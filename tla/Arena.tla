------------------------------- MODULE Arena -------------------------------
(***************************************************************************)
(* heap/arena.rs: a slot table that hands freed slots out again (DR-0019). *)
(* A handle is a slot and the generation it was issued in.  Slots are      *)
(* numbered from 1.                                                        *)
(***************************************************************************)
EXTENDS Integers, Sequences, FiniteSets

CONSTANTS Values,         \* what the arena holds
          None,           \* an empty slot, and what a stale handle names
          MaxGeneration,  \* u32::MAX, the last generation of a slot
          MaxSlots        \* bound: how long the table grows

ASSUME ArenaAssumption == /\ None \notin Values
                          /\ MaxGeneration \in Nat
                          /\ MaxSlots \in Nat

VARIABLES slots,        \* Arena.slots
          generations,  \* Arena.generations
          free,         \* Arena.free, the next one to be used last
          issued        \* history: every handle given out, with its value

arenaVars == <<slots, generations, free, issued>>

Handles == (Nat \ {0}) \X Nat

ArenaTypeOK ==
          /\ slots \in Seq(Values \cup {None})
          /\ generations \in Seq(0..MaxGeneration)
          /\ Len(generations) = Len(slots)
          /\ free \in Seq(DOMAIN slots)
          /\ issued \subseteq Handles \X Values

ArenaInit == /\ slots = <<>>
             /\ generations = <<>>
             /\ free = <<>>
             /\ issued = {}

(* The value a handle names: none if the table has no such slot, if the    *)
(* slot has moved on to another generation, or if it is empty.             *)
Get(h) == IF h[1] \in DOMAIN slots /\ h[2] = generations[h[1]]
          THEN slots[h[1]] ELSE None

-----------------------------------------------------------------------------

(* The slot freed last is used first, in the generation the sweep left.    *)
PlaceInFreed(value) ==
    /\ free # <<>>
    /\ LET i == free[Len(free)]
       IN  /\ slots' = [slots EXCEPT ![i] = value]
           /\ issued' = issued \cup {<< <<i, generations[i]>>, value>>}
    /\ free' = SubSeq(free, 1, Len(free) - 1)
    /\ UNCHANGED generations

PlaceInNew(value) ==
    /\ free = <<>>
    /\ Len(slots) < MaxSlots
    /\ slots' = Append(slots, value)
    /\ generations' = Append(generations, 0)
    /\ issued' = issued \cup {<< <<Len(slots) + 1, 0>>, value>>}
    /\ UNCHANGED free

Place(value) == PlaceInFreed(value) \/ PlaceInNew(value)

(* A slot in its last generation is emptied like any other and is never    *)
(* used again.                                                             *)
ReusableWrapping(swept) == swept
ReusableEarly(swept) == {i \in swept : generations[i] + 1 < MaxGeneration}
Reusable(swept) == {i \in swept : generations[i] < MaxGeneration}

(* Addition as wide as a u32: it would start again at 0.                   *)
Successor(g) == IF g = MaxGeneration THEN 0 ELSE g + 1

(* The slots in the order the sweep meets them.                            *)
Ascending(S) == {order \in [1..Cardinality(S) -> S] :
                    /\ \A j, k \in DOMAIN order : j < k => order[j] < order[k]
                    /\ \A i \in S : \E j \in DOMAIN order : order[j] = i}

SweepKeepingGenerations(marked) ==
    LET swept == {i \in DOMAIN slots \ marked : slots[i] # None}
        reusable == Reusable(swept)
    IN  /\ slots' = [i \in DOMAIN slots |-> IF i \in swept THEN None ELSE slots[i]]
        /\ generations' = generations
        /\ \E order \in Ascending(reusable) : free' = free \o order
        /\ UNCHANGED issued

(* Every slot the marks did not reach is emptied.                          *)
Sweep(marked) ==
    LET swept == {i \in DOMAIN slots \ marked : slots[i] # None}
        reusable == Reusable(swept)
    IN  /\ slots' = [i \in DOMAIN slots |-> IF i \in swept THEN None ELSE slots[i]]
        /\ generations' = [i \in DOMAIN slots |-> IF i \in reusable
                                                  THEN Successor(generations[i])
                                                  ELSE generations[i]]
        /\ \E order \in Ascending(reusable) : free' = free \o order
        /\ UNCHANGED issued

ArenaNext == \/ \E value \in Values : Place(value)
             \/ \E marked \in SUBSET DOMAIN slots : Sweep(marked)

ArenaSpec == ArenaInit /\ [][ArenaNext]_arenaVars

-----------------------------------------------------------------------------

(* A handle names the value it was issued for or nothing, however often    *)
(* its slot has been handed out since (DR-0019).                           *)
OwnValueOrNothing == \A p \in issued : Get(p[1]) \in {p[2], None}

(* A handle whose value has gone names nothing for ever: WeakRef.deref     *)
(* does not come back to life.                                             *)
StaysGone == \A p \in issued : Get(p[1]) = None => Get(p[1])' = None
GoneForGood == [][StaysGone]_arenaVars

(* An empty slot is on the free list, once, or has used all its            *)
(* generations: the table does not grow while it has room.                 *)
NothingLeaks ==
    /\ \A j, k \in DOMAIN free : free[j] = free[k] => j = k
    /\ \A i \in DOMAIN slots :
          (slots[i] = None /\ \A j \in DOMAIN free : free[j] # i)
              => generations[i] = MaxGeneration
    /\ \A j \in DOMAIN free : slots[free[j]] = None
=============================================================================
