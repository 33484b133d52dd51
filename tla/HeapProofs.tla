----------------------------- MODULE HeapProofs -----------------------------
(***************************************************************************)
(* The heap of one machine, and the memory several share: two              *)
(* specifications that have no state in common.                            *)
(*                                                                         *)
(* Of the arena and the collector, for every set of objects, every length  *)
(* of the arena's table, every number of generations and of references: a  *)
(* handle names its own value or nothing, for ever; a collection frees     *)
(* nothing that will be asked for again, and it keeps exactly what it      *)
(* should.                                                                 *)
(*                                                                         *)
(* Of a shared block, for every number of agents, slots, values, waits and *)
(* promises: a wait a notify counted is answered "ok" and no wait or       *)
(* promise is answered twice; a notify takes the oldest first; and no      *)
(* wake-up is lost as long as the block never gets shorter.                *)
(***************************************************************************)
EXTENDS Collector, SharedBlock, FiniteSetTheorems, SequenceTheorems,
        WellFoundedInduction, TLAPS

-----------------------------------------------------------------------------
(* The arena.                                                              *)

(* What was issued and is still in its slot's generation is in the slot,   *)
(* and a slot on the free list has issued nothing in its generation: that  *)
(* the list holds no slot twice is what the second half rests on.          *)
IssuedBefore ==
    \A p \in issued : /\ p[1][1] \in DOMAIN slots
                      /\ p[1][2] <= generations[p[1][1]]
CurrentIsOwn ==
    \A p \in issued : p[1][2] = generations[p[1][1]] =>
        slots[p[1][1]] \in {p[2], None}
FreeIsUnissued ==
    \A p \in issued, j \in DOMAIN free :
        free[j] = p[1][1] => p[1][2] < generations[p[1][1]]

ArenaInv == /\ ArenaTypeOK /\ NothingLeaks
            /\ IssuedBefore /\ CurrentIsOwn /\ FreeIsUnissued

(* What taking the last slot off the free list leaves, and what the sweep  *)
(* appending to it makes.                                                  *)
LEMMA FrontOf ==
    ASSUME NEW S, NEW q \in Seq(S), q # <<>>, NEW f,
           f = SubSeq(q, 1, Len(q) - 1)
    PROVE  /\ f \in Seq(S) /\ Len(f) = Len(q) - 1
           /\ DOMAIN f \subseteq DOMAIN q /\ Len(q) \notin DOMAIN f
           /\ \A j \in DOMAIN q : j \in DOMAIN f \/ j = Len(q)
           /\ \A j \in DOMAIN f : f[j] = q[j]
<1>1. Len(q) \in Nat /\ Len(q) > 0 /\ DOMAIN q = 1..Len(q)
  OBVIOUS
<1>2. /\ f \in Seq(S) /\ Len(f) = Len(q) - 1
      /\ \A j \in 1..Len(q) - 1 : f[j] = q[j]
  BY <1>1
<1>3. DOMAIN f = 1..Len(q) - 1
  BY <1>2
<1> QED BY <1>1, <1>2, <1>3

LEMMA ListIsSeq ==
    ASSUME NEW S, NEW n \in Nat, NEW f \in [1..n -> S]
    PROVE  f \in Seq(S)
<1>1. f = [i \in 1..n |-> f[i]] /\ \A i \in 1..n : f[i] \in S
  OBVIOUS
<1>2. [i \in 1..n |-> f[i]] \in Seq(S)
  BY <1>1
<1> QED BY <1>1, <1>2

LEMMA ConcatOf ==
    ASSUME NEW S, NEW q \in Seq(S), NEW r \in Seq(S), NEW c, c = q \o r
    PROVE  /\ c \in Seq(S)
           /\ \A j \in DOMAIN q : j \in DOMAIN c /\ c[j] = q[j]
           /\ \A j \in DOMAIN r : /\ Len(q) + j \in DOMAIN c
                                  /\ c[Len(q) + j] = r[j]
           /\ \A k \in DOMAIN c : \/ k \in DOMAIN q /\ c[k] = q[k]
                                  \/ /\ k - Len(q) \in DOMAIN r
                                     /\ c[k] = r[k - Len(q)]
<1>1. /\ c \in Seq(S) /\ Len(c) = Len(q) + Len(r)
      /\ \A k \in 1..Len(q) + Len(r) :
            c[k] = IF k <= Len(q) THEN q[k] ELSE r[k - Len(q)]
  BY ConcatProperties
<1>2. /\ DOMAIN c = 1..Len(q) + Len(r) /\ DOMAIN q = 1..Len(q)
      /\ DOMAIN r = 1..Len(r) /\ Len(q) \in Nat /\ Len(r) \in Nat
  BY <1>1
<1>3. \A j \in 1..Len(r) : Len(q) + j \in 1..Len(q) + Len(r)
                          /\ ~(Len(q) + j <= Len(q)) /\ (Len(q) + j) - Len(q) = j
  BY <1>2
<1>4. \A k \in 1..Len(q) + Len(r) :
        ~(k <= Len(q)) => k - Len(q) \in 1..Len(r)
  BY <1>2
<1> QED BY <1>1, <1>2, <1>3, <1>4

LEMMA InitArena == ArenaInit => ArenaInv
  BY ArenaAssumption
     DEF ArenaInit, ArenaInv, ArenaTypeOK, NothingLeaks, IssuedBefore, CurrentIsOwn,
         FreeIsUnissued

LEMMA PlaceInFreedKeeps ==
    ASSUME ArenaInv, NEW value \in Values, PlaceInFreed(value)
    PROVE  ArenaInv'
<1> DEFINE i == free[Len(free)]
           h == <<i, generations[i]>>
<1>1. /\ free # <<>> /\ Len(free) \in DOMAIN free /\ i \in DOMAIN slots
      /\ slots' = [slots EXCEPT ![i] = value]
      /\ issued' = issued \cup {<<h, value>>}
      /\ free' = SubSeq(free, 1, Len(free) - 1)
      /\ generations' = generations
  BY DEF PlaceInFreed, ArenaInv, ArenaTypeOK
<1>2. /\ slots \in Seq(Values \cup {None}) /\ free \in Seq(DOMAIN slots)
      /\ generations \in Seq(0..MaxGeneration) /\ Len(generations) = Len(slots)
      /\ issued \subseteq Handles \X Values
  BY DEF ArenaInv, ArenaTypeOK
<1>3. /\ DOMAIN slots' = DOMAIN slots /\ Len(slots') = Len(slots)
      /\ \A j \in DOMAIN slots : slots'[j] = IF j = i THEN value ELSE slots[j]
  BY <1>1, <1>2
<1>4. /\ free' \in Seq(DOMAIN slots)
      /\ DOMAIN free' \subseteq DOMAIN free /\ Len(free) \notin DOMAIN free'
      /\ \A j \in DOMAIN free : j \in DOMAIN free' \/ j = Len(free)
      /\ \A j \in DOMAIN free' : free'[j] = free[j]
  BY <1>1, <1>2, FrontOf, SMTT(30)
<1>5. \A j \in DOMAIN free' : free'[j] # i
  BY <1>1, <1>4 DEF ArenaInv, NothingLeaks
<1>6. ArenaTypeOK'
  <2>1. h \in Handles
    BY <1>1, <1>2, ArenaAssumption DEF Handles
  <2>2. slots' \in Seq(Values \cup {None}) /\ Len(slots') = Len(slots)
    BY <1>1, <1>2
  <2>3. free' \in Seq(DOMAIN slots')
    BY <1>3, <1>4
  <2>4. issued' \subseteq Handles \X Values
    <3>1. <<h, value>> \in Handles \X Values
      BY <2>1
    <3> HIDE DEF h
    <3> QED BY <1>1, <1>2, <3>1
  <2> QED BY <1>1, <1>2, <2>2, <2>3, <2>4 DEF ArenaTypeOK
<1>7. NothingLeaks'
  <2>1. \A j \in DOMAIN slots : slots'[j] = None => j # i /\ slots[j] = None
    BY <1>3, ArenaAssumption
  <2>2. ASSUME NEW j \in DOMAIN slots, slots'[j] = None,
               \A k \in DOMAIN free' : free'[k] # j
        PROVE  generations[j] = MaxGeneration
    <3>1. \A k \in DOMAIN free : k \in DOMAIN free' \/ k = Len(free)
      BY <1>4
    <3>2. \A k \in DOMAIN free : free[k] # j
      BY <2>1, <2>2, <3>1, <1>4
    <3> QED BY <2>1, <2>2, <3>2 DEF ArenaInv, NothingLeaks
  <2>3. \A j, k \in DOMAIN free' : free'[j] = free'[k] => j = k
    BY <1>4 DEF ArenaInv, NothingLeaks
  <2>4. \A j \in DOMAIN free' : slots'[free'[j]] = None
    <3> SUFFICES ASSUME NEW j \in DOMAIN free' PROVE slots'[free'[j]] = None
      OBVIOUS
    <3>1. free'[j] = free[j] /\ j \in DOMAIN free /\ free[j] # i
      BY <1>4, <1>5
    <3>2. free[j] \in DOMAIN slots
      BY <1>2, <3>1
    <3>3. slots[free[j]] = None
      BY <3>1 DEF ArenaInv, NothingLeaks
    <3> QED BY <1>3, <3>1, <3>2, <3>3
  <2> QED BY <1>1, <1>3, <2>2, <2>3, <2>4 DEF NothingLeaks
<1>8. \A p \in issued : p[1][1] = i => p[1][2] < generations[i]
  BY <1>1 DEF ArenaInv, FreeIsUnissued
<1>9. /\ <<h, value>>[1][1] = i /\ <<h, value>>[1][2] = generations[i]
      /\ <<h, value>>[2] = value
  OBVIOUS
<1>10. generations[i] \in Nat
  BY <1>1, <1>2, ArenaAssumption
<1>11. \A p \in issued : p[1][2] \in Nat
  BY <1>2 DEF Handles
<1>12. IssuedBefore'
  BY <1>1, <1>3, <1>9, <1>10 DEF ArenaInv, IssuedBefore
<1>13. CurrentIsOwn'
  BY <1>1, <1>3, <1>8, <1>9, <1>10, <1>11 DEF ArenaInv, CurrentIsOwn, IssuedBefore
<1>14. FreeIsUnissued'
  BY <1>1, <1>4, <1>5, <1>9 DEF ArenaInv, FreeIsUnissued
<1> QED BY <1>6, <1>7, <1>12, <1>13, <1>14 DEF ArenaInv

LEMMA PlaceInNewKeeps ==
    ASSUME ArenaInv, NEW value \in Values, PlaceInNew(value)
    PROVE  ArenaInv'
<1> DEFINE i == Len(slots) + 1
           h == <<i, 0>>
<1>1. /\ free = <<>> /\ free' = free
      /\ slots' = Append(slots, value)
      /\ generations' = Append(generations, 0)
      /\ issued' = issued \cup {<<h, value>>}
  BY DEF PlaceInNew
<1>2. /\ slots \in Seq(Values \cup {None}) /\ free \in Seq(DOMAIN slots)
      /\ generations \in Seq(0..MaxGeneration) /\ Len(generations) = Len(slots)
      /\ issued \subseteq Handles \X Values
  BY DEF ArenaInv, ArenaTypeOK
<1>3. /\ DOMAIN slots' = DOMAIN slots \cup {i} /\ Len(slots') = i
      /\ i \notin DOMAIN slots /\ i \in Nat \ {0}
      /\ slots'[i] = value
      /\ \A j \in DOMAIN slots : slots'[j] = slots[j]
  BY <1>1, <1>2
<1>4. /\ Len(generations') = i /\ generations'[i] = 0
      /\ \A j \in DOMAIN slots : generations'[j] = generations[j]
  BY <1>1, <1>2
<1>5. ArenaTypeOK'
  <2>1. h \in Handles
    BY <1>3 DEF Handles
  <2>2. generations' \in Seq(0..MaxGeneration)
    BY <1>1, <1>2, ArenaAssumption
  <2>3. slots' \in Seq(Values \cup {None})
    BY <1>1, <1>2
  <2>4. free' \in Seq(DOMAIN slots')
    BY <1>1, EmptySeq
  <2>5. issued' \subseteq Handles \X Values
    <3>1. <<h, value>> \in Handles \X Values
      BY <2>1
    <3> HIDE DEF h
    <3> QED BY <1>1, <1>2, <3>1
  <2> QED BY <1>3, <1>4, <2>2, <2>3, <2>4, <2>5 DEF ArenaTypeOK
<1>6. NothingLeaks'
  BY <1>1, <1>3, <1>4, ArenaAssumption DEF ArenaInv, NothingLeaks
<1>7. <<h, value>>[1][1] = i /\ <<h, value>>[1][2] = 0 /\ <<h, value>>[2] = value
  OBVIOUS
<1>8. IssuedBefore'
  BY <1>1, <1>3, <1>4, <1>7 DEF ArenaInv, IssuedBefore
<1>9. CurrentIsOwn'
  BY <1>1, <1>3, <1>4, <1>7 DEF ArenaInv, CurrentIsOwn, IssuedBefore
<1>10. FreeIsUnissued'
  BY <1>1 DEF FreeIsUnissued
<1> QED BY <1>5, <1>6, <1>8, <1>9, <1>10 DEF ArenaInv

LEMMA SweepKeeps ==
    ASSUME ArenaInv, NEW marked \in SUBSET DOMAIN slots, Sweep(marked)
    PROVE  ArenaInv'
<1> DEFINE swept == {i \in DOMAIN slots \ marked : slots[i] # None}
           reusable == Reusable(swept)
<1>1. PICK order \in Ascending(reusable) :
        /\ slots' = [i \in DOMAIN slots |-> IF i \in swept THEN None ELSE slots[i]]
        /\ generations' = [i \in DOMAIN slots |-> IF i \in reusable
                                                  THEN Successor(generations[i])
                                                  ELSE generations[i]]
        /\ free' = free \o order
        /\ issued' = issued
  BY DEF Sweep
<1>2. /\ slots \in Seq(Values \cup {None}) /\ free \in Seq(DOMAIN slots)
      /\ generations \in Seq(0..MaxGeneration) /\ Len(generations) = Len(slots)
      /\ issued \subseteq Handles \X Values
      /\ DOMAIN slots = 1..Len(slots) /\ Len(slots) \in Nat
      /\ DOMAIN generations = DOMAIN slots
  BY DEF ArenaInv, ArenaTypeOK
<1>3. /\ reusable \subseteq swept /\ swept \subseteq DOMAIN slots
      /\ \A i \in swept : slots[i] # None
      /\ \A i \in DOMAIN slots : generations[i] \in 0..MaxGeneration
      /\ \A i \in reusable : generations[i] < MaxGeneration
      /\ \A i \in swept \ reusable : generations[i] = MaxGeneration
  BY <1>2, ArenaAssumption DEF Reusable
<1>4. \A i \in reusable : Successor(generations[i]) = generations[i] + 1
  BY <1>3 DEF Successor
<1> HIDE DEF swept, reusable
<1>5. /\ DOMAIN slots' = DOMAIN slots /\ DOMAIN generations' = DOMAIN slots
      /\ \A i \in DOMAIN slots :
            /\ slots'[i] = IF i \in swept THEN None ELSE slots[i]
            /\ generations'[i] = IF i \in reusable THEN generations[i] + 1
                                 ELSE generations[i]
  BY <1>1, <1>3, <1>4
<1>6. /\ order \in [1..Cardinality(reusable) -> reusable]
      /\ DOMAIN order = 1..Cardinality(reusable)
      /\ \A j, k \in DOMAIN order : j < k => order[j] < order[k]
      /\ \A i \in reusable : \E j \in DOMAIN order : order[j] = i
  BY <1>1 DEF Ascending
<1>7. IsFiniteSet(reusable)
  <2>1. IsFiniteSet(1..Len(slots))
    BY <1>2, FS_Interval
  <2> QED BY <2>1, <1>2, <1>3, FS_Subset
<1>8. Cardinality(reusable) \in Nat
  BY <1>7, FS_CardinalityType
<1>9. order \in Seq(reusable) /\ Len(order) = Cardinality(reusable)
  BY <1>6, <1>8
<1>10. /\ free' \in Seq(DOMAIN slots) /\ Len(free) \in Nat
       /\ \A j \in DOMAIN free : j \in DOMAIN free' /\ free'[j] = free[j]
       /\ \A j \in DOMAIN order : /\ Len(free) + j \in DOMAIN free'
                                  /\ free'[Len(free) + j] = order[j]
       /\ \A k \in DOMAIN free' : \/ k \in DOMAIN free /\ free'[k] = free[k]
                                  \/ /\ k - Len(free) \in DOMAIN order
                                     /\ free'[k] = order[k - Len(free)]
  <2> DEFINE S == DOMAIN slots
  <2>1. order \in Seq(S)
    BY <1>3, <1>9, SeqMonotonic
  <2>2. free \in Seq(S) /\ free' = free \o order
    BY <1>1, <1>2
  <2>3. Len(free) \in Nat
    BY <2>2
  <2> HIDE DEF S
  <2>4. /\ free' \in Seq(S)
        /\ \A j \in DOMAIN free : j \in DOMAIN free' /\ free'[j] = free[j]
        /\ \A j \in DOMAIN order : /\ Len(free) + j \in DOMAIN free'
                                   /\ free'[Len(free) + j] = order[j]
        /\ \A k \in DOMAIN free' : \/ k \in DOMAIN free /\ free'[k] = free[k]
                                   \/ /\ k - Len(free) \in DOMAIN order
                                      /\ free'[k] = order[k - Len(free)]
    BY ONLY <2>1, <2>2, ConcatOf
  <2> QED BY <2>3, <2>4 DEF S
<1>11. \A k \in DOMAIN free' : k \in Nat
  BY <1>10
<1>12. \A j \in DOMAIN free : free[j] \in DOMAIN slots /\ free[j] \notin swept
  BY <1>2, <1>3 DEF ArenaInv, NothingLeaks
<1>13. \A j \in DOMAIN order : order[j] \in reusable
  BY <1>6
<1>14. \A j, k \in DOMAIN order : order[j] = order[k] => j = k
  <2> SUFFICES ASSUME NEW j \in DOMAIN order, NEW k \in DOMAIN order,
                      order[j] = order[k], j # k
               PROVE  FALSE
    OBVIOUS
  <2>1. j \in Nat /\ k \in Nat /\ order[j] \in Nat /\ order[k] \in Nat
    <3>1. j \in 1..Cardinality(reusable) /\ k \in 1..Cardinality(reusable)
      BY <1>6
    <3>2. order[j] \in 1..Len(slots) /\ order[k] \in 1..Len(slots)
      BY <1>2, <1>3, <1>13
    <3> QED BY <3>1, <3>2, <1>8
  <2>2. j < k \/ k < j
    BY <2>1
  <2> QED BY <1>6, <2>1, <2>2
<1>15. ArenaTypeOK'
  <2>1. slots' \in Seq(Values \cup {None}) /\ Len(slots') = Len(slots)
    BY <1>1, <1>2
  <2>2. generations' \in Seq(0..MaxGeneration) /\ Len(generations') = Len(slots)
    <3>1. \A i \in DOMAIN slots : generations'[i] \in 0..MaxGeneration
      BY <1>3, <1>5, ArenaAssumption
    <3>2. generations' = [i \in 1..Len(slots) |-> generations'[i]]
      BY <1>1, <1>2
    <3>3. generations' \in [1..Len(slots) -> 0..MaxGeneration]
      BY <1>2, <3>1, <3>2
    <3>4. generations' \in Seq(0..MaxGeneration)
      BY <1>2, <3>3, ListIsSeq
    <3> QED BY <1>2, <3>3, <3>4, LenProperties
  <2> QED BY <1>1, <1>2, <1>5, <1>10, <2>1, <2>2 DEF ArenaTypeOK
<1>16. NothingLeaks'
  <2>1. ASSUME NEW j \in DOMAIN free', NEW k \in DOMAIN free', free'[j] = free'[k]
        PROVE  j = k
    <3>1. CASE j \in DOMAIN free /\ k \in DOMAIN free
      BY <2>1, <3>1, <1>10 DEF ArenaInv, NothingLeaks
    <3>2. CASE j \notin DOMAIN free /\ k \notin DOMAIN free
      <4>1. j - Len(free) = k - Len(free)
        BY <2>1, <3>2, <1>10, <1>14
      <4> QED BY <4>1, <1>10, <1>11
    <3>3. CASE j \in DOMAIN free /\ k \notin DOMAIN free
      BY <2>1, <3>3, <1>3, <1>10, <1>12, <1>13
    <3>4. CASE j \notin DOMAIN free /\ k \in DOMAIN free
      BY <2>1, <3>4, <1>3, <1>10, <1>12, <1>13
    <3> QED BY <3>1, <3>2, <3>3, <3>4
  <2>2. ASSUME NEW i \in DOMAIN slots, slots'[i] = None,
               \A j \in DOMAIN free' : free'[j] # i
        PROVE  generations'[i] = MaxGeneration
    <3>1. i \notin reusable
      BY <2>2, <1>6, <1>10
    <3>2. CASE i \in swept
      BY <3>1, <3>2, <1>3, <1>5
    <3>3. CASE i \notin swept
      <4>1. slots[i] = None /\ \A j \in DOMAIN free : free[j] # i
        BY <2>2, <3>3, <1>5, <1>10
      <4>2. generations[i] = MaxGeneration
        BY <4>1 DEF ArenaInv, NothingLeaks
      <4> QED BY <4>2, <3>1, <1>5
    <3> QED BY <3>2, <3>3
  <2>3. \A j \in DOMAIN free' : slots'[free'[j]] = None
    <3> SUFFICES ASSUME NEW j \in DOMAIN free' PROVE slots'[free'[j]] = None
      OBVIOUS
    <3>1. CASE j \in DOMAIN free /\ free'[j] = free[j]
      BY <3>1, <1>5, <1>12 DEF ArenaInv, NothingLeaks
    <3>2. CASE j - Len(free) \in DOMAIN order /\ free'[j] = order[j - Len(free)]
      BY <3>2, <1>3, <1>5, <1>13
    <3> QED BY <3>1, <3>2, <1>10
  <2> QED BY <1>5, <2>1, <2>2, <2>3 DEF NothingLeaks
<1>17. \A p \in issued : p[1][2] \in Nat
  BY <1>2 DEF Handles
<1>18. \A p \in issued : /\ p[1][1] \in DOMAIN slots
                         /\ generations[p[1][1]] \in Nat
                         /\ p[1][2] <= generations[p[1][1]]
  BY <1>3, ArenaAssumption DEF ArenaInv, IssuedBefore
<1>19. IssuedBefore'
  BY <1>1, <1>5, <1>17, <1>18 DEF IssuedBefore
<1>20. CurrentIsOwn'
  BY <1>1, <1>5, <1>17, <1>18 DEF ArenaInv, CurrentIsOwn
<1>21. FreeIsUnissued'
  <2> SUFFICES ASSUME NEW p \in issued, NEW j \in DOMAIN free', free'[j] = p[1][1]
               PROVE  p[1][2] < generations'[p[1][1]]
    BY <1>1 DEF FreeIsUnissued
  <2>1. CASE j \in DOMAIN free /\ free'[j] = free[j]
    <3>1. p[1][2] < generations[p[1][1]]
      BY <2>1 DEF ArenaInv, FreeIsUnissued
    <3> QED BY <3>1, <1>5, <1>17, <1>18
  <2>2. CASE j - Len(free) \in DOMAIN order /\ free'[j] = order[j - Len(free)]
    <3>1. p[1][1] \in reusable
      BY <2>2, <1>13
    <3> QED BY <3>1, <1>5, <1>17, <1>18
  <2> QED BY <2>1, <2>2, <1>10
<1> QED BY <1>15, <1>16, <1>19, <1>20, <1>21 DEF ArenaInv

LEMMA NextKeepsArena == ArenaInv /\ [ArenaNext]_arenaVars => ArenaInv'
<1> SUFFICES ASSUME ArenaInv, [ArenaNext]_arenaVars PROVE ArenaInv'
  OBVIOUS
<1>1. CASE \E value \in Values : Place(value)
  BY <1>1, PlaceInFreedKeeps, PlaceInNewKeeps DEF Place
<1>2. CASE \E marked \in SUBSET DOMAIN slots : Sweep(marked)
  BY <1>2, SweepKeeps
<1>3. CASE UNCHANGED arenaVars
  BY <1>3 DEF arenaVars, ArenaInv, ArenaTypeOK, NothingLeaks, IssuedBefore,
              CurrentIsOwn, FreeIsUnissued
<1> QED BY <1>1, <1>2, <1>3 DEF ArenaNext

(* Nothing breaks the arena's invariant.                                   *)
THEOREM ArenaHolds == ArenaSpec => []ArenaInv
<1> QED BY InitArena, NextKeepsArena, PTL DEF ArenaSpec

(* A handle names the value it was issued for or nothing (DR-0019), with   *)
(* no exception for a slot that has used up its generations.               *)
THEOREM NamesOwnValue == ArenaSpec => []OwnValueOrNothing
<1>1. ArenaInv => OwnValueOrNothing
  BY DEF ArenaInv, OwnValueOrNothing, CurrentIsOwn, IssuedBefore, Get
<1> QED BY <1>1, ArenaHolds, PTL

(* An empty slot is on the free list, once, or is retired.                 *)
THEOREM NoSlotLost == ArenaSpec => []NothingLeaks
<1>1. ArenaInv => NothingLeaks
  BY DEF ArenaInv
<1> QED BY <1>1, ArenaHolds, PTL

-----------------------------------------------------------------------------

(* A stale handle's slot has moved on or stands empty for ever, and        *)
(* neither is undone.                                                      *)
LEMMA StaleStaysStale ==
    ASSUME ArenaInv, [ArenaNext]_arenaVars
    PROVE  StaysGone
<1> SUFFICES ASSUME NEW p \in issued, Get(p[1]) = None
             PROVE  Get(p[1])' = None
  BY DEF StaysGone
<1> DEFINE i == p[1][1]
           g == p[1][2]
<1>1. /\ i \in DOMAIN slots /\ g \in Nat /\ generations[i] \in 0..MaxGeneration
      /\ generations[i] \in Nat
      /\ g < generations[i] \/ (g = generations[i] /\ slots[i] = None)
  <2>1. i \in DOMAIN slots /\ g <= generations[i] /\ g \in Nat
    BY DEF ArenaInv, ArenaTypeOK, IssuedBefore, Handles
  <2>2. generations[i] \in 0..MaxGeneration /\ generations[i] \in Nat
    BY <2>1, ArenaAssumption DEF ArenaInv, ArenaTypeOK
  <2>3. g = generations[i] => slots[i] = None
    BY <2>1 DEF Get
  <2> QED BY <2>1, <2>2, <2>3
<1>2. \A j \in DOMAIN free : free[j] = i => g < generations[i]
  BY DEF ArenaInv, FreeIsUnissued
<1>3. Get(p[1])' = IF i \in DOMAIN slots' /\ g = generations'[i]
                   THEN slots'[i] ELSE None
  BY DEF Get
<1> HIDE DEF i, g
<1>4. CASE \E value \in Values : PlaceInFreed(value)
  <2> PICK value \in Values : PlaceInFreed(value)
    BY <1>4
  <2>1. PICK j \in DOMAIN free : slots' = [slots EXCEPT ![free[j]] = value]
    <3>1. Len(free) \in DOMAIN free
      BY DEF PlaceInFreed, ArenaInv, ArenaTypeOK
    <3> QED BY <3>1 DEF PlaceInFreed
  <2>2. generations' = generations
    BY DEF PlaceInFreed
  <2> QED BY <1>1, <1>2, <1>3, <2>1, <2>2
<1>5. CASE \E value \in Values : PlaceInNew(value)
  <2> PICK value \in Values : PlaceInNew(value)
    BY <1>5
  <2>1. slots' = Append(slots, value) /\ generations' = Append(generations, 0)
    BY DEF PlaceInNew
  <2>2. slots'[i] = slots[i] /\ generations'[i] = generations[i]
    BY <1>1, <2>1 DEF ArenaInv, ArenaTypeOK
  <2> QED BY <1>1, <1>3, <2>2
<1>6. CASE \E marked \in SUBSET DOMAIN slots : Sweep(marked)
  <2> PICK marked \in SUBSET DOMAIN slots : Sweep(marked)
    BY <1>6
  <2> DEFINE swept == {j \in DOMAIN slots \ marked : slots[j] # None}
  <2>1. /\ slots'[i] = IF i \in swept THEN None ELSE slots[i]
        /\ generations'[i] = IF i \in Reusable(swept)
                             THEN Successor(generations[i]) ELSE generations[i]
    BY <1>1 DEF Sweep
  <2>2. i \in Reusable(swept) => generations'[i] = generations[i] + 1
    BY <1>1, <2>1, ArenaAssumption DEF Reusable, Successor
  <2>3. i \in Reusable(swept) => g < generations'[i]
    BY <1>1, <2>2
  <2>4. i \notin Reusable(swept) => generations'[i] = generations[i]
    BY <2>1
  <2>5. slots[i] = None => slots'[i] = None
    BY <2>1
  <2> QED BY <1>1, <1>3, <2>3, <2>4, <2>5
<1>7. CASE UNCHANGED arenaVars
  BY <1>1, <1>3, <1>7 DEF arenaVars
<1> QED BY <1>4, <1>5, <1>6, <1>7 DEF ArenaNext, Place

(* Once a handle names nothing it names nothing for ever: a WeakRef whose  *)
(* target was collected never answers again, whoever has the slot now.     *)
THEOREM StaleForEver == ArenaSpec => GoneForGood
<1> QED BY StaleStaysStale, ArenaHolds, PTL DEF ArenaSpec, GoneForGood

-----------------------------------------------------------------------------
(* Induction over the naturals, for a set: the least number outside it     *)
(* cannot be 0 and cannot follow one inside.                               *)

LEMMA Least ==
    ASSUME NEW T \in SUBSET Nat, T # {}
    PROVE  \E n \in T : \A m \in T : n <= m
<1> DEFINE R == OpToRel(<, Nat)
<1>1. IsWellFoundedOn(R, Nat)
  BY NatLessThanWellFounded, Zenon
<1>2. \A x, y \in Nat : <<y, x>> \in R <=> y < x
  BY DEF OpToRel
<1> HIDE DEF R
<1>3. PICK n \in T : \A m \in T : ~(<<m, n>> \in R)
  BY <1>1, WFMin
<1>4. \A m \in T : m \in Nat /\ n \in Nat /\ ~(m < n)
  <2> TAKE m \in T
  <2>1. m \in Nat /\ n \in Nat
    OBVIOUS
  <2> QED BY <1>2, <1>3, <2>1
<1> QED BY <1>3, <1>4

LEMMA Induction ==
    ASSUME NEW C, 0 \in C, \A n \in Nat : n \in C => n + 1 \in C
    PROVE  \A n \in Nat : n \in C
<1> SUFFICES ASSUME Nat \ C # {} PROVE FALSE
  OBVIOUS
<1>1. PICK n \in Nat \ C : \A m \in Nat \ C : n <= m
  BY Least
<1>2. n # 0 /\ n - 1 \in Nat /\ ~(n <= n - 1) /\ (n - 1) + 1 = n
  BY <1>1
<1>3. n - 1 \in C
  BY <1>1, <1>2
<1> QED BY <1>1, <1>2, <1>3

(* What is repeated `number` times has a result at every step.             *)
Repeats(f, number, base, step) ==
    f = [n \in 0..number |-> IF n = 0 THEN base ELSE step[f[n - 1]]]

LEMMA RepeatsExist ==
    ASSUME NEW number \in Nat, NEW base, NEW step
    PROVE  \E f : Repeats(f, number, base, step)
<1> DEFINE C == {n \in Nat : \E f : Repeats(f, n, base, step)}
<1>1. 0 \in C
  <2>1. Repeats([n \in 0..0 |-> base], 0, base, step)
    BY DEF Repeats
  <2> QED BY <2>1
<1>2. ASSUME NEW n \in Nat, n \in C
      PROVE  n + 1 \in C
  <2>1. PICK f : Repeats(f, n, base, step)
    BY <1>2
  <2> DEFINE g == [m \in 0..(n + 1) |-> IF m = 0 THEN base ELSE step[f[m - 1]]]
  <2>2. \A m \in 0..n : f[m] = IF m = 0 THEN base ELSE step[f[m - 1]]
    BY <2>1 DEF Repeats
  <2>3. \A m \in 0..n : g[m] = f[m]
    BY <2>2
  <2>4. \A m \in 0..(n + 1) : m # 0 => m - 1 \in 0..n
    OBVIOUS
  <2>5. \A m \in 0..(n + 1) : m # 0 => step[g[m - 1]] = step[f[m - 1]]
    BY <2>3, <2>4
  <2>6. Repeats(g, n + 1, base, step)
    BY <2>5 DEF Repeats
  <2> QED BY <2>6
<1>3. \A n \in Nat : n \in C
  BY <1>1, <1>2, Induction
<1> QED BY <1>3

(* What holds of the first and of what follows one it holds of holds of    *)
(* all of them.                                                            *)
LEMMA OneByOne ==
    ASSUME NEW number \in Nat, NEW f, NEW D, f[0] \in D,
           \A n \in 1..number : f[n - 1] \in D => f[n] \in D
    PROVE  \A n \in 0..number : f[n] \in D
<1> DEFINE C == {n \in Nat : n \in 0..number => f[n] \in D}
<1>1. 0 \in C
  OBVIOUS
<1>2. \A n \in Nat : n \in C => n + 1 \in C
  <2> SUFFICES ASSUME NEW n \in Nat, n \in C, n + 1 \in 0..number
               PROVE  f[n + 1] \in D
    OBVIOUS
  <2>1. n \in 0..number /\ n + 1 \in 1..number /\ (n + 1) - 1 = n
    OBVIOUS
  <2> QED BY <2>1
<1>3. \A n \in Nat : n \in C
  BY <1>1, <1>2, Induction
<1> QED BY <1>3

(* A step that only adds, repeated as often as there is anything to add,   *)
(* has nothing left to add.                                                *)
LEMMA RepeatsSettle ==
    ASSUME NEW number \in Nat, NEW base, NEW step, NEW f,
           Repeats(f, number, base, step),
           NEW U, IsFiniteSet(U), Cardinality(U) <= number,
           NEW D \in SUBSET SUBSET U, base \in D,
           \A x \in D : step[x] \in D /\ x \subseteq step[x]
    PROVE  step[f[number]] = f[number]
<1>1. \A n \in 0..number : f[n] = IF n = 0 THEN base ELSE step[f[n - 1]]
  BY DEF Repeats
<1>2. \A n \in 0..number : f[n] \in D
  <2>1. f[0] \in D
    BY <1>1
  <2>2. \A n \in 1..number : f[n - 1] \in D => f[n] \in D
    BY <1>1
  <2> QED BY <2>1, <2>2, OneByOne
<1>3. \A x \in D : /\ IsFiniteSet(x) /\ Cardinality(x) \in Nat
                   /\ Cardinality(x) <= Cardinality(U)
                   /\ x \subseteq U
                   /\ Cardinality(x) = Cardinality(U) => x = U
  <2> TAKE x \in D
  <2>1. x \in SUBSET U
    OBVIOUS
  <2> QED BY <2>1, FS_Subset, FS_CardinalityType
<1> DEFINE C == {n \in Nat : n \in 0..number => \/ step[f[n]] = f[n]
                                                \/ Cardinality(f[n]) >= n}
<1>4. 0 \in C
  BY <1>2, <1>3
<1>5. \A n \in Nat : n \in C => n + 1 \in C
  <2> SUFFICES ASSUME NEW n \in Nat, n \in C, n + 1 \in 0..number,
                      step[f[n + 1]] # f[n + 1]
               PROVE  Cardinality(f[n + 1]) >= n + 1
    OBVIOUS
  <2>1. n \in 0..number /\ n + 1 # 0 /\ (n + 1) - 1 = n
    OBVIOUS
  <2>2. f[n + 1] = step[f[n]]
    BY <1>1, <2>1
  <2>3. step[f[n]] # f[n] /\ Cardinality(f[n]) >= n
    BY <2>1, <2>2
  <2>4. /\ IsFiniteSet(f[n + 1]) /\ f[n] \in SUBSET f[n + 1] /\ f[n] # f[n + 1]
        /\ Cardinality(f[n]) \in Nat /\ Cardinality(f[n + 1]) \in Nat
    BY <1>2, <1>3, <2>1, <2>2, <2>3
  <2>5. /\ Cardinality(f[n]) <= Cardinality(f[n + 1])
        /\ Cardinality(f[n]) = Cardinality(f[n + 1]) => f[n] = f[n + 1]
    BY <2>4, FS_Subset
  <2> HIDE DEF C
  <2> QED BY <2>3, <2>4, <2>5
<1>6. \A n \in Nat : n \in C
  BY <1>4, <1>5, Induction
<1>7. number \in 0..number
  OBVIOUS
<1>8. CASE Cardinality(f[number]) >= number
  <2>1. Cardinality(U) \in Nat
    BY FS_CardinalityType
  <2>2. f[number] = U
    BY <1>2, <1>3, <1>7, <1>8, <2>1
  <2>3. f[number] \in D /\ step[f[number]] \in D
    BY <1>2, <1>7
  <2>4. f[number] \subseteq step[f[number]] /\ step[f[number]] \subseteq U
    BY <2>3, <1>3
  <2> QED BY <2>2, <2>4
<1>9. number \in C
  BY <1>6
<1>10. step[f[number]] = f[number] \/ Cardinality(f[number]) >= number
  BY <1>7, <1>9
<1> QED BY <1>8, <1>10
-----------------------------------------------------------------------------
(* The handles that name something, and the slots they name.               *)

Live == {h \in Handles : Get(h) # None}

(* What the engine will follow is alive.                                   *)
Sound ==
    /\ ArenaTypeOK /\ Len(slots) <= MaxSlots
    /\ held \cup locals \subseteq Live
    /\ \A i \in Occupied : /\ links[slots[i]] \subseteq Live
                           /\ \A e \in entries[slots[i]] : {e.key, e.value} \subseteq Live

LEMMA OccupiedFew ==
    ASSUME Sound
    PROVE  /\ IsFiniteSet(Occupied) /\ Cardinality(Occupied) <= MaxSlots
           /\ IsFiniteSet(Live) /\ Cardinality(Live) <= MaxSlots
<1>1. Len(slots) \in Nat /\ MaxSlots \in Nat /\ Len(slots) <= MaxSlots
      /\ DOMAIN slots = 1..Len(slots)
  BY ArenaAssumption DEF Sound, ArenaTypeOK
<1> DEFINE N == 1..Len(slots)
<1>2. IsFiniteSet(N) /\ Cardinality(N) = Len(slots)
  <2>1. 1 \in Int /\ Len(slots) \in Int
    BY <1>1
  <2>2. /\ IsFiniteSet(N)
        /\ Cardinality(N) = IF 1 > Len(slots) THEN 0 ELSE Len(slots) - 1 + 1
    BY ONLY <2>1, FS_Interval
  <2> QED BY <1>1, <2>2
<1>3. Occupied \in SUBSET N /\ \A h \in Live : h[1] \in N /\ h[2] = generations[h[1]]
  BY <1>1 DEF Occupied, Live, Get
<1> HIDE DEF N
<1>4. IsFiniteSet(Occupied) /\ Cardinality(Occupied) <= Cardinality(N)
      /\ Cardinality(Occupied) \in Nat
  BY <1>2, <1>3, FS_Subset, FS_CardinalityType
<1> DEFINE f == [h \in Live |-> h[1]]
<1>5. f \in Injection(Live, N)
  <2>1. f \in [Live -> N]
    BY <1>3
  <2>2. \A h, k \in Live : f[h] = f[k] => h = k
    <3> SUFFICES ASSUME NEW h \in Live, NEW k \in Live, h[1] = k[1] PROVE h = k
      OBVIOUS
    <3>1. h[2] = k[2]
      BY <1>3
    <3>2. h = <<h[1], h[2]>> /\ k = <<k[1], k[2]>>
      BY DEF Live, Handles
    <3> QED BY <3>1, <3>2
  <2> QED BY <2>1, <2>2 DEF Injection, IsInjective
<1>6. IsFiniteSet(Live) /\ Cardinality(Live) <= Cardinality(N)
  BY <1>2, <1>5, FS_Injection
<1>7. Cardinality(Live) \in Nat
  BY <1>6, FS_CardinalityType
<1> QED BY <1>1, <1>2, <1>4, <1>6, <1>7

LEMMA LiveNames ==
    ASSUME NEW h \in Live
    PROVE  /\ h \in Handles /\ Slot(h) = h[1] /\ Slot(h) \in Occupied
           /\ Get(h) = slots[Slot(h)] /\ h[2] = generations[Slot(h)]
  BY DEF Live, Get, Occupied, Slot

LEMMA StrongIsLive ==
    ASSUME Sound, NEW i \in Occupied
    PROVE  Strong(slots[i]) \subseteq Live
  BY DEF Sound, Strong

-----------------------------------------------------------------------------
(* The walk.                                                               *)

LEMMA OnwardHas ==
    ASSUME NEW H
    PROVE  \A x : x \in Onward(H) <=>
              x \in H \/ \E h \in H : Get(h) # None /\ x \in Strong(Get(h))
  BY DEF Onward

WalkEnds(r, handles) ==
    r = [n \in 0..MaxSlots |-> IF n = 0 THEN handles ELSE Onward(r[n - 1])]

LEMMA WalkIs ==
    ASSUME NEW handles, NEW f, WalkEnds(f, handles)
    PROVE  \E r : WalkEnds(r, handles) /\ Walk(handles) = {Slot(h) : h \in r[MaxSlots]}
<1> DEFINE r == CHOOSE g : WalkEnds(g, handles)
<1>1. WalkEnds(r, handles)
  OBVIOUS
<1>2. Walk(handles) = {Slot(h) : h \in r[MaxSlots]}
  BY DEF Walk, WalkEnds
<1> QED BY <1>1, <1>2

(* The slots a set of slots leads to are in it.                            *)
StrongClosed(S) == \A i \in S : {Slot(h) : h \in Strong(slots[i])} \subseteq S
SlotsOf(handles) == {Slot(h) : h \in handles}

(* The walk ends with the least set of slots it can end with.              *)
LEMMA WalkReaches ==
    ASSUME Sound, NEW handles \in SUBSET Live
    PROVE  /\ Walk(handles) \in SUBSET Occupied
           /\ SlotsOf(handles) \subseteq Walk(handles)
           /\ StrongClosed(Walk(handles))
           /\ \A S \in SUBSET Occupied :
                 StrongClosed(S) /\ SlotsOf(handles) \subseteq S
                    => Walk(handles) \subseteq S
<1> DEFINE D == SUBSET Live
           step == [H \in D |-> Onward(H)]
<1> MaxSlots \in Nat
  BY ArenaAssumption
<1>1. \A H \in D : Onward(H) \in D /\ H \subseteq Onward(H)
  <2> TAKE H \in D
  <2>1. \A h \in H : Strong(Get(h)) \subseteq Live
    BY LiveNames, StrongIsLive
  <2> QED BY <2>1, OnwardHas
<1>2. \A H \in D : step[H] = Onward(H) /\ step[H] \in D /\ H \subseteq step[H]
  BY <1>1
<1>3. handles \in D /\ 0 \in 0..MaxSlots /\ MaxSlots \in 0..MaxSlots
      /\ \A n \in 1..MaxSlots : n \in 0..MaxSlots /\ n # 0 /\ n - 1 \in 0..MaxSlots
  OBVIOUS
<1> HIDE DEF step, D
<1>4. PICK f : Repeats(f, MaxSlots, handles, step)
  BY RepeatsExist
<1>5. \A n \in 0..MaxSlots : f[n] = IF n = 0 THEN handles ELSE step[f[n - 1]]
  BY <1>4 DEF Repeats
<1>6. \A n \in 0..MaxSlots : f[n] \in D
  <2>1. f[0] \in D
    BY <1>3, <1>5
  <2>2. \A n \in 1..MaxSlots : f[n - 1] \in D => f[n] \in D
    BY <1>2, <1>3, <1>5
  <2> QED BY <2>1, <2>2, OneByOne
<1>7. WalkEnds(f, handles)
  <2>1. f = [n \in 0..MaxSlots |-> IF n = 0 THEN handles ELSE step[f[n - 1]]]
    BY <1>4 DEF Repeats
  <2>2. \A n \in 0..MaxSlots : n # 0 => step[f[n - 1]] = Onward(f[n - 1])
    <3> TAKE n \in 0..MaxSlots
    <3>1. n # 0 => n - 1 \in 0..MaxSlots
      OBVIOUS
    <3> QED BY <3>1, <1>2, <1>6
  <2> QED BY <2>1, <2>2 DEF WalkEnds
<1>8. PICK r : WalkEnds(r, handles) /\ Walk(handles) = SlotsOf(r[MaxSlots])
  BY <1>7, WalkIs DEF SlotsOf
<1>9. \A n \in 0..MaxSlots : r[n] = IF n = 0 THEN handles ELSE Onward(r[n - 1])
  BY <1>8 DEF WalkEnds
<1>10. \A n \in 0..MaxSlots : r[n] \in D
  <2>1. r[0] \in D
    BY <1>3, <1>9
  <2>2. \A n \in 1..MaxSlots : r[n - 1] \in D => r[n] \in D
    BY <1>1, <1>3, <1>9
  <2> QED BY <2>1, <2>2, OneByOne
<1>11. Repeats(r, MaxSlots, handles, step)
  <2>1. r = [n \in 0..MaxSlots |-> IF n = 0 THEN handles ELSE Onward(r[n - 1])]
    BY <1>8 DEF WalkEnds
  <2>2. \A n \in 0..MaxSlots : n # 0 => step[r[n - 1]] = Onward(r[n - 1])
    <3> TAKE n \in 0..MaxSlots
    <3>1. n # 0 => n - 1 \in 0..MaxSlots
      OBVIOUS
    <3> QED BY <3>1, <1>2, <1>10
  <2> QED BY <2>1, <2>2 DEF Repeats
<1> DEFINE R == r[MaxSlots]
<1>12. R \in D /\ Onward(R) = R
  <2>1. R \in D
    BY <1>3, <1>10
  <2>2. IsFiniteSet(Live) /\ Cardinality(Live) <= MaxSlots
    BY OccupiedFew
  <2>3. D \in SUBSET SUBSET Live
    BY DEF D
  <2>4. step[R] = R
    BY <1>2, <1>3, <1>11, <2>2, <2>3, RepeatsSettle
  <2> QED BY <1>2, <2>1, <2>4
<1>13. handles \subseteq R
  <2> DEFINE E == {H \in D : handles \subseteq H}
  <2>1. r[0] \in E
    BY <1>3, <1>9, <1>10
  <2>2. \A n \in 1..MaxSlots : r[n - 1] \in E => r[n] \in E
    <3> SUFFICES ASSUME NEW n \in 1..MaxSlots, r[n - 1] \in E PROVE r[n] \in E
      OBVIOUS
    <3>1. r[n] = Onward(r[n - 1]) /\ r[n - 1] \in D
      BY <1>3, <1>9
    <3> QED BY <3>1, <1>1
  <2> HIDE DEF E
  <2>3. \A n \in 0..MaxSlots : r[n] \in E
    BY <2>1, <2>2, OneByOne
  <2> QED BY <2>3, <1>3 DEF E
<1>14. \A h \in R : h \in Live /\ Strong(Get(h)) \subseteq R
  BY <1>12, OnwardHas DEF D, Live
<1>15. Walk(handles) \in SUBSET Occupied /\ SlotsOf(handles) \subseteq Walk(handles)
  BY <1>8, <1>13, <1>14, LiveNames DEF SlotsOf
<1>16. StrongClosed(Walk(handles))
  <2> SUFFICES ASSUME NEW i \in Walk(handles)
               PROVE  {Slot(h) : h \in Strong(slots[i])} \subseteq Walk(handles)
    BY DEF StrongClosed
  <2>1. PICK h \in R : i = Slot(h)
    BY <1>8 DEF SlotsOf
  <2>2. Strong(slots[i]) \subseteq R
    BY <2>1, <1>14, LiveNames
  <2> QED BY <2>2, <1>8 DEF SlotsOf
<1>17. ASSUME NEW S \in SUBSET Occupied, StrongClosed(S), SlotsOf(handles) \subseteq S
       PROVE  Walk(handles) \subseteq S
  <2> DEFINE E == {H \in D : SlotsOf(H) \subseteq S}
  <2>1. r[0] \in E
    BY <1>3, <1>9, <1>17
  <2>2. \A n \in 1..MaxSlots : r[n - 1] \in E => r[n] \in E
    <3> SUFFICES ASSUME NEW n \in 1..MaxSlots, r[n - 1] \in E PROVE r[n] \in E
      OBVIOUS
    <3>1. r[n] = Onward(r[n - 1]) /\ r[n] \in D /\ r[n - 1] \in D
      BY <1>3, <1>9, <1>10
    <3>2. \A h \in r[n - 1] : h \in Live /\ Slot(h) \in S
      BY <3>1 DEF D, SlotsOf
    <3>3. \A h \in r[n - 1] : \A x \in Strong(Get(h)) : Slot(x) \in S
      BY <3>2, <1>17, LiveNames DEF StrongClosed
    <3>4. \A x \in r[n] : Slot(x) \in S
      BY <3>1, <3>2, <3>3, OnwardHas
    <3> QED BY <3>1, <3>4 DEF SlotsOf
  <2> HIDE DEF E
  <2>3. \A n \in 0..MaxSlots : r[n] \in E
    BY <2>1, <2>2, OneByOne
  <2> QED BY <2>3, <1>3, <1>8 DEF E
<1> QED BY <1>15, <1>16, <1>17

-----------------------------------------------------------------------------
(* The passes over the weak entries.                                       *)

WeakClosed(S) == \A e \in WeakEntries : Slot(e.key) \in S => Slot(e.value) \in S

LEMMA WeakEntriesAreLive ==
    ASSUME Sound
    PROVE  \A e \in WeakEntries : e.key \in Live /\ e.value \in Live
  BY DEF Sound, WeakEntries

LEMMA WeakPassHas ==
    ASSUME NEW S
    PROVE  \A i : i \in WeakPass(S) <=>
              \/ i \in S
              \/ \E e \in WeakEntries : Slot(e.key) \in S /\ i \in Walk({e.value})
  BY DEF WeakPass

(* The value alone, as the walk sees it.                                   *)
LEMMA ValueWalk ==
    ASSUME Sound, NEW e \in WeakEntries
    PROVE  /\ Walk({e.value}) \in SUBSET Occupied
           /\ Slot(e.value) \in Walk({e.value})
           /\ StrongClosed(Walk({e.value}))
           /\ \A S \in SUBSET Occupied :
                 StrongClosed(S) /\ Slot(e.value) \in S => Walk({e.value}) \subseteq S
<1>1. {e.value} \in SUBSET Live
  BY WeakEntriesAreLive
<1>2. SlotsOf({e.value}) = {Slot(e.value)}
  BY DEF SlotsOf
<1>3. /\ Walk({e.value}) \in SUBSET Occupied
      /\ SlotsOf({e.value}) \subseteq Walk({e.value})
      /\ StrongClosed(Walk({e.value}))
      /\ \A S \in SUBSET Occupied :
            StrongClosed(S) /\ SlotsOf({e.value}) \subseteq S
               => Walk({e.value}) \subseteq S
  BY <1>1, WalkReaches
<1> QED BY <1>2, <1>3

PassesEnd(r, marked) ==
    r = [n \in 0..MaxSlots |-> IF n = 0 THEN marked ELSE WeakPass(r[n - 1])]

LEMMA MarkWeakIs ==
    ASSUME NEW marked, NEW f, PassesEnd(f, marked)
    PROVE  \E r : PassesEnd(r, marked) /\ MarkWeak(marked) = r[MaxSlots]
<1> DEFINE r == CHOOSE g : PassesEnd(g, marked)
<1>1. PassesEnd(r, marked)
  OBVIOUS
<1>2. MarkWeak(marked) = r[MaxSlots]
  BY DEF MarkWeak, PassesEnd
<1> QED BY <1>1, <1>2

(* The passes end with the least set they can end with.                    *)
LEMMA WeakMarkReaches ==
    ASSUME Sound, NEW marked \in SUBSET Occupied, StrongClosed(marked)
    PROVE  /\ MarkWeak(marked) \in SUBSET Occupied
           /\ marked \subseteq MarkWeak(marked)
           /\ StrongClosed(MarkWeak(marked)) /\ WeakClosed(MarkWeak(marked))
           /\ \A S \in SUBSET Occupied :
                 /\ StrongClosed(S) /\ WeakClosed(S) /\ marked \subseteq S
                 => MarkWeak(marked) \subseteq S
<1> DEFINE D == {S \in SUBSET Occupied : StrongClosed(S)}
           step == [S \in D |-> WeakPass(S)]
<1> MaxSlots \in Nat
  BY ArenaAssumption
<1>1. \A S \in D : WeakPass(S) \in D /\ S \subseteq WeakPass(S)
  <2> TAKE S \in D
  <2>1. WeakPass(S) \in SUBSET Occupied /\ S \subseteq WeakPass(S)
    BY WeakPassHas, ValueWalk
  <2>2. StrongClosed(WeakPass(S))
    <3> SUFFICES ASSUME NEW i \in WeakPass(S)
                 PROVE  {Slot(h) : h \in Strong(slots[i])} \subseteq WeakPass(S)
      BY DEF StrongClosed
    <3>1. CASE i \in S
      BY <3>1, <2>1 DEF StrongClosed
    <3>2. CASE i \notin S
      <4>1. PICK e \in WeakEntries : Slot(e.key) \in S /\ i \in Walk({e.value})
        BY <3>2, WeakPassHas
      <4>2. {Slot(h) : h \in Strong(slots[i])} \subseteq Walk({e.value})
        BY <4>1, ValueWalk DEF StrongClosed
      <4> QED BY <4>1, <4>2, WeakPassHas
    <3> QED BY <3>1, <3>2
  <2> QED BY <2>1, <2>2
<1>2. \A S \in D : step[S] = WeakPass(S) /\ step[S] \in D /\ S \subseteq step[S]
  BY <1>1
<1>3. marked \in D /\ 0 \in 0..MaxSlots /\ MaxSlots \in 0..MaxSlots
      /\ \A n \in 1..MaxSlots : n \in 0..MaxSlots /\ n # 0 /\ n - 1 \in 0..MaxSlots
  OBVIOUS
<1> HIDE DEF step, D
<1>4. PICK f : Repeats(f, MaxSlots, marked, step)
  BY RepeatsExist
<1>5. \A n \in 0..MaxSlots : f[n] = IF n = 0 THEN marked ELSE step[f[n - 1]]
  BY <1>4 DEF Repeats
<1>6. \A n \in 0..MaxSlots : f[n] \in D
  <2>1. f[0] \in D
    BY <1>3, <1>5
  <2>2. \A n \in 1..MaxSlots : f[n - 1] \in D => f[n] \in D
    BY <1>2, <1>3, <1>5
  <2> QED BY <2>1, <2>2, OneByOne
<1>7. PassesEnd(f, marked)
  <2>1. f = [n \in 0..MaxSlots |-> IF n = 0 THEN marked ELSE step[f[n - 1]]]
    BY <1>4 DEF Repeats
  <2>2. \A n \in 0..MaxSlots : n # 0 => step[f[n - 1]] = WeakPass(f[n - 1])
    <3> TAKE n \in 0..MaxSlots
    <3>1. n # 0 => n - 1 \in 0..MaxSlots
      OBVIOUS
    <3> QED BY <3>1, <1>2, <1>6
  <2> QED BY <2>1, <2>2 DEF PassesEnd
<1>8. PICK r : PassesEnd(r, marked) /\ MarkWeak(marked) = r[MaxSlots]
  BY <1>7, MarkWeakIs
<1>9. \A n \in 0..MaxSlots : r[n] = IF n = 0 THEN marked ELSE WeakPass(r[n - 1])
  BY <1>8 DEF PassesEnd
<1>10. \A n \in 0..MaxSlots : r[n] \in D
  <2>1. r[0] \in D
    BY <1>3, <1>9
  <2>2. \A n \in 1..MaxSlots : r[n - 1] \in D => r[n] \in D
    BY <1>1, <1>3, <1>9
  <2> QED BY <2>1, <2>2, OneByOne
<1>11. Repeats(r, MaxSlots, marked, step)
  <2>1. r = [n \in 0..MaxSlots |-> IF n = 0 THEN marked ELSE WeakPass(r[n - 1])]
    BY <1>8 DEF PassesEnd
  <2>2. \A n \in 0..MaxSlots : n # 0 => step[r[n - 1]] = WeakPass(r[n - 1])
    <3> TAKE n \in 0..MaxSlots
    <3>1. n # 0 => n - 1 \in 0..MaxSlots
      OBVIOUS
    <3> QED BY <3>1, <1>2, <1>10
  <2> QED BY <2>1, <2>2 DEF Repeats
<1> DEFINE M == r[MaxSlots]
<1>12. M \in D /\ WeakPass(M) = M
  <2>1. M \in D
    BY <1>3, <1>10
  <2>2. IsFiniteSet(Occupied) /\ Cardinality(Occupied) <= MaxSlots
    BY OccupiedFew
  <2>3. D \in SUBSET SUBSET Occupied
    BY DEF D
  <2>4. step[M] = M
    BY <1>2, <1>3, <1>11, <2>2, <2>3, RepeatsSettle
  <2> QED BY <1>2, <2>1, <2>4
<1>13. marked \subseteq M
  <2> DEFINE E == {S \in D : marked \subseteq S}
  <2>1. r[0] \in E
    BY <1>3, <1>9, <1>10
  <2>2. \A n \in 1..MaxSlots : r[n - 1] \in E => r[n] \in E
    <3> SUFFICES ASSUME NEW n \in 1..MaxSlots, r[n - 1] \in E PROVE r[n] \in E
      OBVIOUS
    <3>1. r[n] = WeakPass(r[n - 1]) /\ r[n - 1] \in D
      BY <1>3, <1>9
    <3> QED BY <3>1, <1>1
  <2> HIDE DEF E
  <2>3. \A n \in 0..MaxSlots : r[n] \in E
    BY <2>1, <2>2, OneByOne
  <2> QED BY <2>3, <1>3 DEF E
<1>14. WeakClosed(M)
  <2> SUFFICES ASSUME NEW e \in WeakEntries, Slot(e.key) \in M
               PROVE  Slot(e.value) \in M
    BY DEF WeakClosed
  <2>1. Slot(e.value) \in Walk({e.value})
    BY ValueWalk
  <2>2. Slot(e.value) \in WeakPass(M)
    BY <2>1, WeakPassHas
  <2> QED BY <2>2, <1>12
<1>15. ASSUME NEW S \in SUBSET Occupied, StrongClosed(S), WeakClosed(S),
              marked \subseteq S
       PROVE  M \subseteq S
  <2> DEFINE E == {T \in D : T \subseteq S}
  <2>1. r[0] \in E
    BY <1>3, <1>9, <1>15
  <2>2. \A n \in 1..MaxSlots : r[n - 1] \in E => r[n] \in E
    <3> SUFFICES ASSUME NEW n \in 1..MaxSlots, r[n - 1] \in E PROVE r[n] \in E
      OBVIOUS
    <3>1. r[n] = WeakPass(r[n - 1]) /\ r[n] \in D /\ r[n - 1] \subseteq S
      BY <1>3, <1>9, <1>10
    <3>2. \A e \in WeakEntries : Slot(e.key) \in r[n - 1] => Walk({e.value}) \subseteq S
      BY <3>1, <1>15, ValueWalk DEF WeakClosed
    <3>3. r[n] \subseteq S
      BY <3>1, <3>2, WeakPassHas
    <3> QED BY <3>1, <3>3
  <2> HIDE DEF E
  <2>3. \A n \in 0..MaxSlots : r[n] \in E
    BY <2>1, <2>2, OneByOne
  <2> QED BY <2>3, <1>3 DEF E
<1>16. M \in SUBSET Occupied /\ StrongClosed(M)
  BY <1>12 DEF D
<1> QED BY <1>8, <1>13, <1>14, <1>15, <1>16

(* What a collection marks: the least set that holds what is held, what    *)
(* that leads to, and the values of entries whose keys it holds.           *)
Marks == MarkWeak(Walk(held))

LEMMA MarksReach ==
    ASSUME Sound
    PROVE  /\ Marks \in SUBSET Occupied
           /\ SlotsOf(held) \subseteq Marks
           /\ StrongClosed(Marks) /\ WeakClosed(Marks)
           /\ \A S \in SUBSET Occupied :
                 /\ SlotsOf(held) \subseteq S /\ StrongClosed(S) /\ WeakClosed(S)
                 => Marks \subseteq S
<1>1. held \in SUBSET Live
  BY DEF Sound
<1>2. /\ Walk(held) \in SUBSET Occupied /\ SlotsOf(held) \subseteq Walk(held)
      /\ StrongClosed(Walk(held))
      /\ \A S \in SUBSET Occupied :
            StrongClosed(S) /\ SlotsOf(held) \subseteq S => Walk(held) \subseteq S
  BY <1>1, WalkReaches
<1>3. /\ Marks \in SUBSET Occupied /\ Walk(held) \subseteq Marks
      /\ StrongClosed(Marks) /\ WeakClosed(Marks)
      /\ \A S \in SUBSET Occupied :
            /\ StrongClosed(S) /\ WeakClosed(S) /\ Walk(held) \subseteq S
            => Marks \subseteq S
  BY <1>2, WeakMarkReaches DEF Marks
<1> QED BY <1>2, <1>3

-----------------------------------------------------------------------------
(* The invariant.  What a program asks for is alive because everything     *)
(* that is followed is; an object that has gone, or is not there yet,      *)
(* holds nothing, so one that takes its place does not start with stale    *)
(* handles; and a collection finds no handle in a native's locals.  What   *)
(* is carried across a drain is no part of it: a collection may free that, *)
(* and what was freed does not come back among the rest.                   *)

Gone(o) == \A i \in Occupied : slots[i] # o

EmptyWhenGone == \A o \in Objects : Gone(o) => links[o] = {} /\ entries[o] = {}
OnlyCollectionsHold ==
    \A o \in Objects : kind[o] \notin {"weakMap", "registry"} => entries[o] = {}
RefsHaveTargets == \A o \in Objects : kind[o] = "weakRef" => target[o] \in Handles
OnceMade == \A i \in Occupied : \E p \in issued : p[2] = slots[i]
NoLocalsOutside == ~native => locals = {}

CollectorInv ==
    /\ TypeOK /\ ArenaInv /\ Sound
    /\ EmptyWhenGone /\ OnlyCollectionsHold /\ RefsHaveTargets
    /\ OnceMade /\ NoLocalsOutside

LEMMA SoundIsEnough == CollectorInv => NoDangling
<1> SUFFICES ASSUME CollectorInv PROVE NoDangling
  OBVIOUS
<1>1. \A h \in Live : Get(h) # None
  BY DEF Live
<1>2. held \cup locals \subseteq Live
  BY DEF CollectorInv, Sound
<1>3. \A i \in Occupied : Followed(slots[i]) \subseteq Live
  BY DEF CollectorInv, Sound, Followed
<1> QED BY <1>1, <1>2, <1>3 DEF NoDangling

LEMMA InitHolds == Init => CollectorInv
<1> SUFFICES ASSUME Init PROVE CollectorInv
  OBVIOUS
<1>1. ArenaInv
  BY InitArena DEF Init
<1>2. TypeOK
  BY <1>1 DEF Init, TypeOK, ArenaInv
<1>3. Occupied = {} /\ Len(slots) = 0
  BY DEF Init, ArenaInit, Occupied
<1>4. Sound
  BY <1>1, <1>3, ArenaAssumption DEF Init, Sound, ArenaInv
<1> QED BY <1>1, <1>2, <1>3, <1>4
        DEF Init, CollectorInv, EmptyWhenGone, OnlyCollectionsHold, RefsHaveTargets,
            OnceMade, NoLocalsOutside

-----------------------------------------------------------------------------
(* What the program asks for.                                              *)

LEMMA HeldIsThere ==
    ASSUME CollectorInv, NEW h \in held
    PROVE  /\ Get(h) \in Objects /\ Slot(h) \in Occupied /\ Get(h) = slots[Slot(h)]
           /\ links[Get(h)] \subseteq Live
           /\ \A e \in entries[Get(h)] : e.key \in Live /\ e.value \in Live
<1>1. h \in Live
  BY DEF CollectorInv, Sound
<1>2. Slot(h) \in Occupied /\ Get(h) = slots[Slot(h)]
  BY <1>1, LiveNames
<1>3. \A i \in Occupied : slots[i] \in Objects
  BY DEF CollectorInv, ArenaInv, ArenaTypeOK, Occupied, Objects
<1> QED BY <1>2, <1>3 DEF CollectorInv, Sound

LEMMA ReadingKeeps ==
    ASSUME CollectorInv, UNCHANGED <<arenaVars, contents>>,
           held' \cup locals' \subseteq Live, native' \in BOOLEAN,
           ~native' => locals' = {}, carried' \subseteq Uses \X Handles,
           stale' \subseteq Handles
    PROVE  CollectorInv'
<1>1. /\ slots' = slots /\ generations' = generations /\ free' = free
      /\ issued' = issued /\ kind' = kind /\ links' = links /\ entries' = entries
      /\ target' = target
  BY DEF arenaVars, contents
<1>2. ArenaInv'
  BY <1>1 DEF CollectorInv, ArenaInv, ArenaTypeOK, NothingLeaks, IssuedBefore,
              CurrentIsOwn, FreeIsUnissued
<1>3. TypeOK'
  BY <1>1, <1>2 DEF CollectorInv, TypeOK, ArenaInv, Live
<1>4. Live' = Live /\ Occupied' = Occupied
  BY <1>1 DEF Live, Get, Occupied
<1>5. Sound'
  BY <1>1, <1>2, <1>4 DEF CollectorInv, Sound, ArenaInv
<1> QED BY <1>1, <1>2, <1>3, <1>4, <1>5
        DEF CollectorInv, EmptyWhenGone, Gone, OnlyCollectionsHold, RefsHaveTargets,
            OnceMade, NoLocalsOutside

LEMMA AskingKeeps ==
    ASSUME CollectorInv, NEW h \in held,
           Read(h) \/ Lookup(h) \/ Deref(h) \/ Forget(h) \/ NativeReads(h)
    PROVE  CollectorInv'
<1>1. held \cup locals \subseteq Live /\ native \in BOOLEAN /\ (~native => locals = {})
      /\ carried \subseteq Uses \X Handles /\ stale \subseteq Handles
  BY DEF CollectorInv, Sound, TypeOK, NoLocalsOutside
<1>2. CASE Read(h)
  BY <1>1, <1>2, HeldIsThere, ReadingKeeps DEF Read
<1>3. CASE Lookup(h)
  BY <1>1, <1>3, HeldIsThere, ReadingKeeps DEF Lookup
<1>4. CASE Deref(h)
  <2>1. target[Get(h)] \in Live
    BY <1>4, HeldIsThere DEF Deref, CollectorInv, RefsHaveTargets, Live
  <2> QED BY <1>1, <1>4, <2>1, ReadingKeeps DEF Deref
<1>5. CASE Forget(h)
  BY <1>1, <1>5, ReadingKeeps DEF Forget
<1>6. CASE NativeReads(h)
  BY <1>1, <1>6, HeldIsThere, ReadingKeeps DEF NativeReads
<1> QED BY <1>2, <1>3, <1>4, <1>5, <1>6

LEMMA ReturningKeeps ==
    ASSUME CollectorInv, NativeReturns
    PROVE  CollectorInv'
<1>1. /\ held \cup locals \subseteq Live
      /\ carried \subseteq Uses \X Handles /\ stale \subseteq Handles
  BY DEF CollectorInv, Sound, TypeOK
<1> QED BY <1>1, ReadingKeeps DEF NativeReturns

LEMMA CarryingKeeps ==
    ASSUME CollectorInv, NEW use \in Uses, NEW h \in held, Carry(use, h)
    PROVE  CollectorInv'
<1>1. /\ held \cup locals \subseteq Live /\ native \in BOOLEAN /\ (~native => locals = {})
      /\ carried \subseteq Uses \X Handles /\ stale \subseteq Handles
  BY DEF CollectorInv, Sound, TypeOK, NoLocalsOutside
<1>2. h \in Handles
  BY <1>1 DEF Live
<1>3. /\ UNCHANGED <<arenaVars, contents>> /\ carried' = carried \cup {<<use, h>>}
      /\ held' = held /\ locals' = locals /\ native' = native /\ stale' = stale
  BY DEF Carry
<1>4. carried' \subseteq Uses \X Handles
  BY <1>1, <1>2, <1>3
<1> QED BY <1>1, <1>3, <1>4, ReadingKeeps

(* What comes back among what the program has is there.                    *)
LEMMA HandingBackKeeps ==
    ASSUME CollectorInv, NEW use, NEW h, <<use, h>> \in carried, HandBack(use, h)
    PROVE  CollectorInv'
<1>1. /\ held \cup locals \subseteq Live /\ native \in BOOLEAN /\ (~native => locals = {})
      /\ carried \subseteq Uses \X Handles /\ stale \subseteq Handles
  BY DEF CollectorInv, Sound, TypeOK, NoLocalsOutside
<1>2. h \in Handles
  BY <1>1
<1>3. /\ UNCHANGED <<arenaVars, contents>> /\ carried' \subseteq carried
      /\ held' = held \cup ({h} \ {x \in {h} : Get(x) = None})
      /\ stale' \subseteq {h}
      /\ locals' = locals /\ native' = native
  BY DEF HandBack
<1>4. held' \cup locals' \subseteq Live
  BY <1>1, <1>2, <1>3 DEF Live
<1>5. carried' \subseteq Uses \X Handles /\ stale' \subseteq Handles
  BY <1>1, <1>2, <1>3
<1> QED BY <1>1, <1>3, <1>4, <1>5, ReadingKeeps

LEMMA DroppingKeeps ==
    ASSUME CollectorInv, NEW h, Drop(h)
    PROVE  CollectorInv'
<1>1. /\ held \cup locals \subseteq Live /\ native \in BOOLEAN /\ (~native => locals = {})
      /\ carried \subseteq Uses \X Handles /\ stale \subseteq Handles
  BY DEF CollectorInv, Sound, TypeOK, NoLocalsOutside
<1> QED BY <1>1, ReadingKeeps DEF Drop

-----------------------------------------------------------------------------
(* What the program writes.                                                *)

LEMMA WritingKeeps ==
    ASSUME CollectorInv, UNCHANGED <<arenaVars, kind, target, held, locals, native, carried, stale>>,
           links' \in [Objects -> SUBSET Handles],
           entries' \in [Objects -> SUBSET Entries],
           NEW h \in held,
           links'[Get(h)] \subseteq Live,
           \A e \in entries'[Get(h)] : e.key \in Live /\ e.value \in Live,
           kind[Get(h)] \notin {"weakMap", "registry"} =>
              entries'[Get(h)] = entries[Get(h)],
           \A o \in Objects \ {Get(h)} : links'[o] = links[o] /\ entries'[o] = entries[o]
    PROVE  CollectorInv'
<1>1. /\ slots' = slots /\ generations' = generations /\ free' = free
      /\ issued' = issued /\ kind' = kind /\ target' = target
      /\ held' = held /\ locals' = locals /\ native' = native /\ carried' = carried /\ stale' = stale
  BY DEF arenaVars
<1>2. ArenaInv'
  BY <1>1 DEF CollectorInv, ArenaInv, ArenaTypeOK, NothingLeaks, IssuedBefore,
              CurrentIsOwn, FreeIsUnissued
<1>3. TypeOK'
  BY <1>1, <1>2 DEF CollectorInv, TypeOK, ArenaInv
<1>4. Live' = Live /\ Occupied' = Occupied
  BY <1>1 DEF Live, Get, Occupied
<1>5. \A i \in Occupied : slots[i] \in Objects
  BY DEF CollectorInv, ArenaInv, ArenaTypeOK, Occupied, Objects
<1>6. Sound'
  <2>1. \A i \in Occupied : /\ links'[slots[i]] \subseteq Live
                            /\ \A e \in entries'[slots[i]] : {e.key, e.value} \subseteq Live
    <3> TAKE i \in Occupied
    <3>1. CASE slots[i] = Get(h)
      BY <3>1
    <3>2. CASE slots[i] # Get(h)
      <4>1. links'[slots[i]] = links[slots[i]] /\ entries'[slots[i]] = entries[slots[i]]
        BY <3>2, <1>5
      <4> QED BY <4>1 DEF CollectorInv, Sound
    <3> QED BY <3>1, <3>2
  <2> QED BY <1>1, <1>2, <1>4, <2>1 DEF CollectorInv, Sound, ArenaInv
<1>7. EmptyWhenGone'
  <2> SUFFICES ASSUME NEW o \in Objects, Gone(o)'
               PROVE  links'[o] = {} /\ entries'[o] = {}
    BY DEF EmptyWhenGone
  <2>1. Gone(o) /\ o # Get(h)
    BY <1>1, <1>4, HeldIsThere DEF Gone
  <2> QED BY <2>1 DEF CollectorInv, EmptyWhenGone
<1>8. OnlyCollectionsHold'
  <2> SUFFICES ASSUME NEW o \in Objects, kind[o] \notin {"weakMap", "registry"}
               PROVE  entries'[o] = {}
    BY <1>1 DEF OnlyCollectionsHold
  <2>1. entries'[o] = entries[o]
    OBVIOUS
  <2> QED BY <2>1 DEF CollectorInv, OnlyCollectionsHold
<1> QED BY <1>1, <1>2, <1>3, <1>4, <1>6, <1>7, <1>8
        DEF CollectorInv, RefsHaveTargets, OnceMade, NoLocalsOutside

LEMMA LinkingKeeps ==
    ASSUME CollectorInv, NEW h \in held, NEW to \in Handles,
           Link(h, to) \/ Unlink(h, to)
    PROVE  CollectorInv'
<1>1. /\ Get(h) \in Objects /\ links[Get(h)] \subseteq Live
      /\ \A e \in entries[Get(h)] : e.key \in Live /\ e.value \in Live
  BY HeldIsThere
<1>2. links \in [Objects -> SUBSET Handles] /\ entries \in [Objects -> SUBSET Entries]
  BY DEF CollectorInv, TypeOK
<1>3. /\ UNCHANGED <<arenaVars, kind, target, held, locals, native, carried, stale>>
      /\ entries' = entries
      /\ \E new \in SUBSET Live : links' = [links EXCEPT ![Get(h)] = new]
  <2>1. to \in held => links[Get(h)] \cup {to} \in SUBSET Live
    BY <1>1 DEF CollectorInv, Sound
  <2>2. links[Get(h)] \ {to} \in SUBSET Live
    BY <1>1
  <2>3. CASE Link(h, to)
    BY <2>1, <2>3 DEF Link
  <2>4. CASE Unlink(h, to)
    BY <2>2, <2>4 DEF Unlink
  <2> QED BY <2>3, <2>4
<1>4. PICK new \in SUBSET Live : links' = [links EXCEPT ![Get(h)] = new]
  BY <1>3
<1>5. new \in SUBSET Handles
  BY DEF Live
<1>6. /\ links' \in [Objects -> SUBSET Handles] /\ entries' \in [Objects -> SUBSET Entries]
      /\ links'[Get(h)] \subseteq Live
      /\ \A e \in entries'[Get(h)] : e.key \in Live /\ e.value \in Live
      /\ entries'[Get(h)] = entries[Get(h)]
      /\ \A o \in Objects \ {Get(h)} : links'[o] = links[o] /\ entries'[o] = entries[o]
  BY <1>1, <1>2, <1>3, <1>4, <1>5
<1> QED BY <1>3, <1>6, WritingKeeps

LEMMA FilingKeeps ==
    ASSUME CollectorInv, NEW h \in held, NEW key \in held, NEW value \in held,
           Put(h, key, value) \/ Register(h, key, value)
    PROVE  CollectorInv'
<1> DEFINE entry == [key |-> key, value |-> value]
<1>1. /\ Get(h) \in Objects /\ links[Get(h)] \subseteq Live
      /\ \A e \in entries[Get(h)] : e.key \in Live /\ e.value \in Live
  BY HeldIsThere
<1>2. links \in [Objects -> SUBSET Handles] /\ entries \in [Objects -> SUBSET Entries]
  BY DEF CollectorInv, TypeOK
<1>3. key \in Live /\ value \in Live
  BY DEF CollectorInv, Sound
<1>4. entry \in Entries /\ entry.key \in Live /\ entry.value \in Live
  BY <1>3 DEF Entries, Live
<1>5. /\ UNCHANGED <<arenaVars, kind, target, held, locals, native, carried, stale>>
      /\ links' = links
      /\ kind[Get(h)] \in {"weakMap", "registry"}
      /\ \E new \in SUBSET entries[Get(h)] :
            entries' = [entries EXCEPT ![Get(h)] = new \cup {entry}]
  <2>1. CASE Put(h, key, value)
    <3>1. {e \in entries[Get(h)] : e.key # key} \in SUBSET entries[Get(h)]
      OBVIOUS
    <3>2. entries' = [entries EXCEPT ![Get(h)] =
                         {e \in entries[Get(h)] : e.key # key} \cup {entry}]
      BY <2>1 DEF Put
    <3> QED BY <2>1, <3>1, <3>2 DEF Put
  <2>2. CASE Register(h, key, value)
    <3>1. entries' = [entries EXCEPT ![Get(h)] = entries[Get(h)] \cup {entry}]
      BY <2>2 DEF Register
    <3> QED BY <2>2, <3>1 DEF Register
  <2> QED BY <2>1, <2>2
<1> HIDE DEF entry
<1>6. PICK new \in SUBSET entries[Get(h)] :
         entries' = [entries EXCEPT ![Get(h)] = new \cup {entry}]
  BY <1>5
<1>7. new \cup {entry} \in SUBSET Entries
  BY <1>1, <1>2, <1>4
<1>8. /\ links' \in [Objects -> SUBSET Handles]
      /\ entries' \in [Objects -> SUBSET Entries]
      /\ links'[Get(h)] \subseteq Live
      /\ entries'[Get(h)] = new \cup {entry}
      /\ \A o \in Objects \ {Get(h)} : links'[o] = links[o] /\ entries'[o] = entries[o]
  BY <1>1, <1>2, <1>5, <1>6, <1>7
<1>9. \A e \in entries'[Get(h)] : e.key \in Live /\ e.value \in Live
  BY <1>1, <1>4, <1>8
<1> QED BY <1>5, <1>8, <1>9, WritingKeeps

-----------------------------------------------------------------------------
(* What is made.                                                           *)

LEMMA PlacingKeepsHandles ==
    ASSUME ArenaInv, NEW o \in Objects, Place(o), Len(slots) <= MaxSlots
    PROVE  /\ Len(slots') <= MaxSlots
           /\ \E i \in DOMAIN slots' :
                /\ slots'[i] = o
                /\ i \in Occupied => FALSE
                /\ Occupied' = Occupied \cup {i}
                /\ \A j \in Occupied : slots'[j] = slots[j]
                                       /\ generations'[j] = generations[j]
                /\ issued' = issued \cup {<< <<i, generations'[i]>>, o>>}
                /\ <<i, generations'[i]>> \in Handles
<1>1. /\ slots \in Seq(Values \cup {None}) /\ free \in Seq(DOMAIN slots)
      /\ generations \in Seq(0..MaxGeneration) /\ Len(generations) = Len(slots)
      /\ DOMAIN slots = 1..Len(slots) /\ Len(slots) \in Nat
      /\ DOMAIN generations = DOMAIN slots
  BY DEF ArenaInv, ArenaTypeOK
<1>2. o # None
  BY ArenaAssumption DEF Objects
<1>3. CASE PlaceInFreed(o)
  <2> DEFINE i == free[Len(free)]
  <2>1. /\ Len(free) \in DOMAIN free /\ i \in DOMAIN slots
        /\ slots' = [slots EXCEPT ![i] = o] /\ generations' = generations
        /\ issued' = issued \cup {<< <<i, generations[i]>>, o>>}
    BY <1>3 DEF PlaceInFreed, ArenaInv, ArenaTypeOK
  <2>2. slots[i] = None
    BY <2>1 DEF ArenaInv, NothingLeaks
  <2>3. generations[i] \in Nat /\ i \in Nat \ {0}
    BY <1>1, <2>1, ArenaAssumption
  <2> HIDE DEF i
  <2>4. /\ DOMAIN slots' = DOMAIN slots /\ Len(slots') = Len(slots) /\ slots'[i] = o
        /\ \A j \in DOMAIN slots : j # i => slots'[j] = slots[j]
    BY <1>1, <2>1
  <2>5. Occupied' = Occupied \cup {i} /\ i \notin Occupied
    BY <1>2, <2>1, <2>2, <2>4 DEF Occupied
  <2>6. <<i, generations'[i]>> \in Handles
    BY <2>1, <2>3 DEF Handles
  <2>7. \A j \in Occupied : slots'[j] = slots[j] /\ generations'[j] = generations[j]
    BY <2>1, <2>4, <2>5 DEF Occupied
  <2> QED BY <2>1, <2>4, <2>5, <2>6, <2>7
<1>4. CASE PlaceInNew(o)
  <2> DEFINE i == Len(slots) + 1
  <2>1. /\ Len(slots) < MaxSlots
        /\ slots' = Append(slots, o) /\ generations' = Append(generations, 0)
        /\ issued' = issued \cup {<< <<i, 0>>, o>>}
    BY <1>4 DEF PlaceInNew
  <2>2. /\ DOMAIN slots' = DOMAIN slots \cup {i} /\ Len(slots') = i
        /\ i \notin DOMAIN slots /\ i \in Nat \ {0} /\ slots'[i] = o
        /\ generations'[i] = 0
        /\ \A j \in DOMAIN slots : slots'[j] = slots[j] /\ generations'[j] = generations[j]
    BY <1>1, <2>1
  <2>3. i <= MaxSlots
    BY <1>1, <2>1, ArenaAssumption
  <2> HIDE DEF i
  <2>4. Occupied' = Occupied \cup {i} /\ i \notin Occupied
    BY <1>2, <2>2 DEF Occupied
  <2>5. <<i, generations'[i]>> \in Handles
    BY <2>2 DEF Handles
  <2>6. \A j \in Occupied : slots'[j] = slots[j] /\ generations'[j] = generations[j]
    BY <2>2 DEF Occupied
  <2> QED BY <2>1, <2>2, <2>3, <2>4, <2>5, <2>6
<1> QED BY <1>3, <1>4 DEF Place

LEMMA MakingKeeps ==
    ASSUME CollectorInv, NEW k \in Kinds, NEW t \in Handles \cup {None}, Make(k, t),
           k = "weakRef" => t \in Handles
    PROVE  CollectorInv'
<1> DEFINE o == CHOOSE u \in Unused : TRUE
<1>1. /\ o \in Objects /\ \A p \in issued : p[2] # o
      /\ Place(o) /\ kind' = [kind EXCEPT ![o] = k] /\ target' = [target EXCEPT ![o] = t]
      /\ held' = held \cup {p[1] : p \in issued' \ issued}
      /\ links' = links /\ entries' = entries /\ locals' = locals /\ native' = native
      /\ carried' = carried /\ stale' = stale
  <2>1. o \in Unused
    BY DEF Make
  <2>2. o \in Objects /\ \A p \in issued : p[2] # o
    BY <2>1 DEF Unused
  <2> QED BY <2>2 DEF Make
<1> HIDE DEF o
<1>2. ArenaInv /\ Len(slots) <= MaxSlots /\ Sound
  BY DEF CollectorInv, Sound
<1>3. ArenaInv'
  <2>1. ArenaNext
    BY <1>1 DEF ArenaNext, Objects
  <2> QED BY <1>2, <2>1, NextKeepsArena
<1>4. /\ Len(slots') <= MaxSlots
      /\ \E i \in DOMAIN slots' :
           /\ slots'[i] = o
           /\ i \in Occupied => FALSE
           /\ Occupied' = Occupied \cup {i}
           /\ \A j \in Occupied : slots'[j] = slots[j] /\ generations'[j] = generations[j]
           /\ issued' = issued \cup {<< <<i, generations'[i]>>, o>>}
           /\ <<i, generations'[i]>> \in Handles
  BY <1>1, <1>2, PlacingKeepsHandles
<1>5. PICK i \in DOMAIN slots' :
           /\ slots'[i] = o
           /\ Occupied' = Occupied \cup {i}
           /\ \A j \in Occupied : slots'[j] = slots[j] /\ generations'[j] = generations[j]
           /\ issued' = issued \cup {<< <<i, generations'[i]>>, o>>}
           /\ <<i, generations'[i]>> \in Handles
  BY <1>4
<1> DEFINE h == <<i, generations'[i]>>
<1>6. \A x \in Live : x \in Live'
  <2> TAKE x \in Live
  <2>1. /\ x \in Handles /\ x[1] \in Occupied /\ x[2] = generations[x[1]]
        /\ slots[x[1]] # None
    BY LiveNames DEF Occupied
  <2>2. slots'[x[1]] # None /\ x[2] = generations'[x[1]] /\ x[1] \in Occupied'
    BY <1>5, <2>1
  <2> QED BY <2>1, <2>2 DEF Live, Get, Occupied
<1>7. h \in Live'
  <2>1. h[1] = i /\ h[2] = generations'[i]
    OBVIOUS
  <2>2. slots'[i] # None
    BY <1>1, <1>5, ArenaAssumption DEF Objects
  <2> HIDE DEF h
  <2> QED BY <1>5, <2>1, <2>2 DEF Live, Get, h
<1>8. held' \cup locals' \subseteq Live'
  <2>1. <<h, o>>[1] = h
    OBVIOUS
  <2> HIDE DEF h
  <2>2. \A p \in issued' \ issued : p[1] = h
    BY <1>5, <2>1 DEF h
  <2>3. held \cup locals \subseteq Live
    BY <1>2 DEF Sound
  <2> QED BY <1>1, <1>6, <1>7, <2>2, <2>3
<1>9. Gone(o)
  <2> SUFFICES ASSUME NEW j \in Occupied, slots[j] = o PROVE FALSE
    BY DEF Gone
  <2> QED BY <1>1 DEF CollectorInv, OnceMade
<1>10. links[o] = {} /\ entries[o] = {}
  BY <1>1, <1>9 DEF CollectorInv, EmptyWhenGone
<1>11. TypeOK'
  BY <1>1, <1>3, <1>8 DEF CollectorInv, TypeOK, ArenaInv, Live
<1>12. Sound'
  <2>1. ASSUME NEW j \in Occupied'
        PROVE  /\ links[slots'[j]] \subseteq Live'
               /\ \A e \in entries[slots'[j]] : {e.key, e.value} \subseteq Live'
    <3>1. CASE j = i
      BY <1>5, <1>10, <3>1
    <3>2. CASE j \in Occupied
      <4>1. /\ slots'[j] = slots[j] /\ links[slots[j]] \subseteq Live
            /\ \A e \in entries[slots[j]] : {e.key, e.value} \subseteq Live
        BY <1>2, <1>5, <3>2 DEF Sound
      <4> QED BY <1>6, <4>1
    <3> QED BY <1>5, <2>1, <3>1, <3>2
  <2>2. ArenaTypeOK'
    BY <1>3 DEF ArenaInv
  <2> QED BY <1>1, <1>4, <1>8, <2>1, <2>2 DEF Sound
<1>13. EmptyWhenGone'
  <2> SUFFICES ASSUME NEW x \in Objects, Gone(x)'
               PROVE  links[x] = {} /\ entries[x] = {}
    BY <1>1 DEF EmptyWhenGone
  <2>1. Gone(x)
    BY <1>5 DEF Gone
  <2> QED BY <2>1 DEF CollectorInv, EmptyWhenGone
<1>14. OnlyCollectionsHold'
  <2> SUFFICES ASSUME NEW x \in Objects, kind'[x] \notin {"weakMap", "registry"}
               PROVE  entries[x] = {}
    BY <1>1 DEF OnlyCollectionsHold
  <2>1. CASE x = o
    BY <1>10, <2>1
  <2>2. CASE x # o
    BY <1>1, <2>2 DEF CollectorInv, TypeOK, OnlyCollectionsHold
  <2> QED BY <2>1, <2>2
<1>15. RefsHaveTargets'
  BY <1>1 DEF CollectorInv, TypeOK, RefsHaveTargets
<1>16. OnceMade'
  <2> SUFFICES ASSUME NEW j \in Occupied' PROVE \E p \in issued' : p[2] = slots'[j]
    BY DEF OnceMade
  <2>1. CASE j = i
    <3>1. <<h, o>>[2] = o /\ <<h, o>> \in issued'
      BY <1>5
    <3> QED BY <1>5, <2>1, <3>1
  <2>2. CASE j \in Occupied
    <3>1. PICK p \in issued : p[2] = slots[j]
      BY <2>2 DEF CollectorInv, OnceMade
    <3> QED BY <1>5, <2>2, <3>1
  <2> QED BY <1>5, <2>1, <2>2
<1>17. NoLocalsOutside'
  BY <1>1 DEF CollectorInv, NoLocalsOutside
<1> QED BY <1>3, <1>11, <1>12, <1>13, <1>14, <1>15, <1>16, <1>17 DEF CollectorInv

-----------------------------------------------------------------------------
(* A collection.                                                           *)

(* What the sweep leaves alone.                                            *)
LEMMA SweepLeaves ==
    ASSUME ArenaInv, NEW marked \in SUBSET Occupied, Sweep(marked)
    PROVE  /\ Len(slots') = Len(slots) /\ DOMAIN slots' = DOMAIN slots
           /\ Occupied' = marked /\ issued' = issued
           /\ \A i \in marked : slots'[i] = slots[i] /\ generations'[i] = generations[i]
           /\ \A i \in DOMAIN slots \ marked : slots'[i] = None
<1> DEFINE swept == {i \in DOMAIN slots \ marked : slots[i] # None}
<1>1. /\ slots' = [i \in DOMAIN slots |-> IF i \in swept THEN None ELSE slots[i]]
      /\ generations' = [i \in DOMAIN slots |-> IF i \in Reusable(swept)
                                                THEN Successor(generations[i])
                                                ELSE generations[i]]
      /\ issued' = issued
  BY DEF Sweep
<1>2. slots \in Seq(Values \cup {None}) /\ DOMAIN slots = 1..Len(slots)
      /\ Len(slots) \in Nat
  BY DEF ArenaInv, ArenaTypeOK
<1>3. ArenaInv'
  <2>1. marked \in SUBSET DOMAIN slots
    BY DEF Occupied
  <2> QED BY <2>1, SweepKeeps
<1>4. DOMAIN slots' = DOMAIN slots
  BY <1>1
<1>5. Len(slots') = Len(slots)
  BY <1>2, <1>3, <1>4 DEF ArenaInv, ArenaTypeOK
<1>6. \A i \in marked : i \in DOMAIN slots /\ i \notin swept /\ i \notin Reusable(swept)
  BY DEF Occupied, Reusable
<1>7. \A i \in marked : slots'[i] = slots[i] /\ generations'[i] = generations[i]
  BY <1>1, <1>6
<1>8. \A i \in DOMAIN slots \ marked : slots'[i] = None
  BY <1>1
<1>9. Occupied' = marked
  BY <1>4, <1>7, <1>8 DEF Occupied
<1> QED BY <1>1, <1>4, <1>5, <1>7, <1>8, <1>9

LEMMA CollectDoes ==
    ASSUME CollectorInv, Collect
    PROVE  /\ ~native /\ UNCHANGED <<kind, target, held, locals, native, carried, stale, issued>>
           /\ Marks \in SUBSET Occupied /\ Occupied' = Marks
           /\ ArenaInv' /\ Len(slots') = Len(slots) /\ DOMAIN slots' = DOMAIN slots
           /\ \A i \in Marks : slots'[i] = slots[i] /\ generations'[i] = generations[i]
           /\ \A i \in DOMAIN slots \ Marks : slots'[i] = None
           /\ links' = [o \in Objects |-> IF o \in {slots[i] : i \in Marks}
                                          THEN links[o] ELSE {}]
           /\ entries' = [o \in Objects |-> IF o \in {slots[i] : i \in Marks}
                             THEN {e \in entries[o] : Slot(e.key) \in Marks} ELSE {}]
<1>1. /\ ~native /\ Prune(Marks) /\ Sweep(Marks)
      /\ UNCHANGED <<kind, target, held, locals, native, carried, stale>>
  BY DEF Collect, Marks
<1>2. Marks \in SUBSET Occupied
  BY MarksReach DEF CollectorInv
<1>3. ArenaInv'
  <2>1. Marks \in SUBSET DOMAIN slots
    BY <1>2 DEF Occupied
  <2> QED BY <1>1, <2>1, SweepKeeps DEF CollectorInv
<1>4. /\ Len(slots') = Len(slots) /\ DOMAIN slots' = DOMAIN slots
      /\ Occupied' = Marks /\ issued' = issued
      /\ \A i \in Marks : slots'[i] = slots[i] /\ generations'[i] = generations[i]
      /\ \A i \in DOMAIN slots \ Marks : slots'[i] = None
  BY <1>1, <1>2, SweepLeaves DEF CollectorInv
<1>5. /\ links' = [o \in Objects |-> IF o \in {slots[i] : i \in Marks}
                                     THEN links[o] ELSE {}]
      /\ entries' = [o \in Objects |-> IF o \in {slots[i] : i \in Marks}
                        THEN {e \in entries[o] : Slot(e.key) \in Marks} ELSE {}]
  BY <1>1 DEF Prune
<1> QED BY <1>1, <1>2, <1>3, <1>4, <1>5

LEMMA CollectingKeeps ==
    ASSUME CollectorInv, Collect
    PROVE  CollectorInv'
<1> DEFINE kept == {slots[i] : i \in Marks}
<1>1. /\ ~native /\ kind' = kind /\ target' = target /\ held' = held
      /\ locals' = locals /\ native' = native /\ carried' = carried /\ stale' = stale
      /\ issued' = issued
      /\ Marks \in SUBSET Occupied /\ Occupied' = Marks
      /\ ArenaInv' /\ Len(slots') = Len(slots)
      /\ \A i \in Marks : slots'[i] = slots[i] /\ generations'[i] = generations[i]
      /\ links' = [o \in Objects |-> IF o \in kept THEN links[o] ELSE {}]
      /\ entries' = [o \in Objects |-> IF o \in kept
                        THEN {e \in entries[o] : Slot(e.key) \in Marks} ELSE {}]
  BY CollectDoes
<1>2. Sound /\ SlotsOf(held) \subseteq Marks /\ StrongClosed(Marks) /\ WeakClosed(Marks)
  BY MarksReach DEF CollectorInv
<1>3. \A i \in Occupied : slots[i] \in Objects
  BY DEF CollectorInv, ArenaInv, ArenaTypeOK, Occupied, Objects
(* A live handle of a marked slot is live after it.                        *)
<1>4. \A x \in Live : Slot(x) \in Marks => x \in Live'
  <2> SUFFICES ASSUME NEW x \in Live, Slot(x) \in Marks PROVE x \in Live'
    OBVIOUS
  <2>1. /\ x \in Handles /\ x[1] \in Marks /\ x[2] = generations[x[1]]
        /\ x[1] \in Occupied
    BY LiveNames
  <2>2. slots'[x[1]] # None /\ x[2] = generations'[x[1]] /\ x[1] \in DOMAIN slots'
    BY <1>1, <2>1 DEF Occupied
  <2> QED BY <2>1, <2>2 DEF Live, Get
<1>5. held' \cup locals' \subseteq Live'
  <2>1. locals = {}
    BY <1>1 DEF CollectorInv, NoLocalsOutside
  <2>2. \A x \in held : x \in Live /\ Slot(x) \in Marks
    BY <1>2 DEF Sound, SlotsOf
  <2> QED BY <1>1, <1>4, <2>1, <2>2
<1>6. ASSUME NEW i \in Marks
      PROVE  /\ links'[slots[i]] \subseteq Live'
             /\ \A e \in entries'[slots[i]] : {e.key, e.value} \subseteq Live'
  <2> DEFINE o == slots[i]
  <2>1. /\ i \in Occupied /\ o \in Objects /\ links'[o] = links[o]
        /\ entries'[o] = {e \in entries[o] : Slot(e.key) \in Marks}
    BY <1>1, <1>3
  <2>2. /\ links[o] \subseteq Live
        /\ \A e \in entries[o] : e.key \in Live /\ e.value \in Live
    BY <1>2, <2>1 DEF Sound
  <2>3. \A x \in Strong(o) : Slot(x) \in Marks
    BY <1>2 DEF StrongClosed
  <2>4. links'[o] \subseteq Live'
    BY <1>4, <2>1, <2>2, <2>3 DEF Strong
  <2>5. ASSUME NEW e \in entries'[o]
        PROVE  e.key \in Live' /\ e.value \in Live'
    <3>1. e \in entries[o] /\ Slot(e.key) \in Marks /\ e.key \in Live /\ e.value \in Live
      BY <2>1, <2>2, <2>5
    <3>2. CASE kind[o] = "weakMap"
      <4>1. e \in WeakEntries
        BY <2>1, <3>1, <3>2 DEF WeakEntries
      <4>2. Slot(e.value) \in Marks
        BY <1>2, <3>1, <4>1 DEF WeakClosed
      <4> QED BY <1>4, <3>1, <4>2
    <3>3. CASE kind[o] = "registry"
      <4>1. e.value \in Strong(o)
        BY <3>1, <3>3 DEF Strong
      <4> QED BY <1>4, <2>3, <3>1, <4>1
    <3>4. kind[o] \in {"weakMap", "registry"}
      BY <2>1, <3>1 DEF CollectorInv, OnlyCollectionsHold
    <3> QED BY <3>2, <3>3, <3>4
  <2> QED BY <2>4, <2>5
<1>7. Sound'
  <2>1. ArenaTypeOK' /\ Len(slots') <= MaxSlots
    BY <1>1, <1>2 DEF Sound, ArenaInv
  <2>2. \A i \in Occupied' :
           /\ links'[slots'[i]] \subseteq Live'
           /\ \A e \in entries'[slots'[i]] : {e.key, e.value} \subseteq Live'
    BY <1>1, <1>6
  <2> QED BY <1>5, <2>1, <2>2 DEF Sound
<1>8. TypeOK'
  <2>1. links' \in [Objects -> SUBSET Handles] /\ entries' \in [Objects -> SUBSET Entries]
    BY <1>1 DEF CollectorInv, TypeOK
  <2> QED BY <1>1, <2>1 DEF CollectorInv, TypeOK, ArenaInv
<1>9. EmptyWhenGone'
  <2> SUFFICES ASSUME NEW o \in Objects, Gone(o)'
               PROVE  links'[o] = {} /\ entries'[o] = {}
    BY DEF EmptyWhenGone
  <2>1. o \notin kept
    BY <1>1 DEF Gone
  <2> QED BY <1>1, <2>1
<1>10. OnlyCollectionsHold'
  <2> SUFFICES ASSUME NEW o \in Objects, kind[o] \notin {"weakMap", "registry"}
               PROVE  entries'[o] = {}
    BY <1>1 DEF OnlyCollectionsHold
  <2>1. entries[o] = {}
    BY DEF CollectorInv, OnlyCollectionsHold
  <2> QED BY <1>1, <2>1
<1>11. OnceMade'
  <2> SUFFICES ASSUME NEW i \in Marks PROVE \E p \in issued : p[2] = slots[i]
    BY <1>1 DEF OnceMade
  <2> QED BY <1>1 DEF CollectorInv, OnceMade
<1> QED BY <1>1, <1>7, <1>8, <1>9, <1>10, <1>11
        DEF CollectorInv, RefsHaveTargets, NoLocalsOutside

-----------------------------------------------------------------------------

LEMMA NextHolds ==
    ASSUME CollectorInv, [Next]_vars
    PROVE  CollectorInv'
<1>1. held \subseteq Handles /\ links \in [Objects -> SUBSET Handles]
  BY DEF CollectorInv, TypeOK
<1>2. CASE \E k \in Kinds : New(k)
  BY <1>2, MakingKeeps DEF New
<1>3. CASE \E t \in held : NewRef(t)
  BY <1>1, <1>3, MakingKeeps DEF NewRef
<1>4. CASE \E h, to \in held : Link(h, to)
  BY <1>1, <1>4, LinkingKeeps
<1>5. CASE \E h \in held : \E to \in links[Get(h)] : Unlink(h, to)
  <2> PICK h \in held : \E to \in links[Get(h)] : Unlink(h, to)
    BY <1>5
  <2> PICK to \in links[Get(h)] : Unlink(h, to)
    OBVIOUS
  <2>1. to \in Handles
    BY <1>1, HeldIsThere
  <2> QED BY <2>1, LinkingKeeps
<1>6. CASE \E h, key, value \in held : Put(h, key, value) \/ Register(h, key, value)
  BY <1>6, FilingKeeps
<1>7. CASE \E h \in held :
              Read(h) \/ Lookup(h) \/ Deref(h) \/ Forget(h) \/ NativeReads(h)
  BY <1>7, AskingKeeps
<1>8. CASE NativeReturns
  BY <1>8, ReturningKeeps
<1>9. CASE Collect
  BY <1>9, CollectingKeeps
<1>10. CASE \E use \in Uses : \E h \in held : Carry(use, h)
  BY <1>10, CarryingKeeps
<1>11. CASE \E c \in carried : HandBack(c[1], c[2])
  <2> PICK c \in carried : HandBack(c[1], c[2])
    BY <1>11
  <2>1. c = <<c[1], c[2]>>
    BY DEF CollectorInv, TypeOK
  <2> QED BY <2>1, HandingBackKeeps
<1>12. CASE \E h \in stale : Drop(h)
  BY <1>12, DroppingKeeps
<1>13. CASE UNCHANGED vars
  <2>1. /\ UNCHANGED <<arenaVars, contents>>
        /\ held' = held /\ locals' = locals /\ native' = native /\ carried' = carried /\ stale' = stale
    BY <1>13 DEF vars, arenaVars, contents
  <2>2. held \cup locals \subseteq Live /\ native \in BOOLEAN /\ (~native => locals = {})
        /\ carried \subseteq Uses \X Handles /\ stale \subseteq Handles
    BY DEF CollectorInv, Sound, TypeOK, NoLocalsOutside
  <2> QED BY <2>1, <2>2, ReadingKeeps
<1> QED BY <1>2, <1>3, <1>4, <1>5, <1>6, <1>7, <1>8, <1>9, <1>10, <1>11, <1>12, <1>13
        DEF Next, Proceed

THEOREM CollectorHolds == Spec => []CollectorInv
<1>1. CollectorInv /\ [Next]_vars => CollectorInv'
  BY NextHolds
<1> QED BY <1>1, InitHolds, PTL DEF Spec

(* Every variable keeps its type.                                          *)
THEOREM TypesKept == Spec => []TypeOK
<1>1. CollectorInv => TypeOK
  BY DEF CollectorInv
<1> QED BY <1>1, CollectorHolds, PTL

(* No collection frees what the program, a native running a script or a    *)
(* live object will ask for, whatever Rust carries across a drain and      *)
(* whether or not that is freed: the capability of an import(), the promise*)
(* of a module, an answer that is handed back although it has gone.        *)
THEOREM NothingFollowedIsFreed == Spec => []NoDangling
<1> QED BY SoundIsEnough, CollectorHolds, PTL

-----------------------------------------------------------------------------
(* The arena inside: whatever the program does and a collection frees, the *)
(* table is used as an arena is, also if what is marked is no longer in it.*)

LEMMA SweepOfTheTable ==
    ASSUME NEW marked, Sweep(marked)
    PROVE  Sweep(marked \cap DOMAIN slots)
<1>1. DOMAIN slots \ marked = DOMAIN slots \ (marked \cap DOMAIN slots)
  OBVIOUS
<1> QED BY <1>1 DEF Sweep

LEMMA StepsAreTheArenas == ASSUME [Next]_vars PROVE [ArenaNext]_arenaVars
<1>1. ASSUME NEW k, NEW t, Make(k, t)
      PROVE  ArenaNext
  <2>1. (CHOOSE u \in Unused : TRUE) \in Unused
    BY <1>1 DEF Make
  <2>2. (CHOOSE u \in Unused : TRUE) \in Values
    BY <2>1 DEF Unused, Objects
  <2>3. Place(CHOOSE u \in Unused : TRUE)
    BY <1>1 DEF Make
  <2> QED BY <2>2, <2>3 DEF ArenaNext
<1>2. CASE \E k \in Kinds : New(k)
  BY <1>1, <1>2 DEF New
<1>3. CASE \E t \in held : NewRef(t)
  BY <1>1, <1>3 DEF NewRef
<1>4. CASE Collect
  <2>1. Sweep(Marks)
    BY <1>4 DEF Collect, Marks
  <2>2. Sweep(Marks \cap DOMAIN slots)
    BY <2>1, SweepOfTheTable
  <2> QED BY <2>2 DEF ArenaNext
<1>5. CASE \E h, to \in held : Link(h, to)
  BY <1>5 DEF Link
<1>6. CASE \E h \in held : \E to \in links[Get(h)] : Unlink(h, to)
  BY <1>6 DEF Unlink
<1>7. CASE \E h, key, value \in held : Put(h, key, value) \/ Register(h, key, value)
  BY <1>7 DEF Put, Register
<1>8. CASE \E h \in held :
              Read(h) \/ Lookup(h) \/ Deref(h) \/ Forget(h) \/ NativeReads(h)
  BY <1>8 DEF Read, Lookup, Deref, Forget, NativeReads
<1>9. CASE NativeReturns
  BY <1>9 DEF NativeReturns
<1>10. CASE UNCHANGED vars
  BY <1>10 DEF vars
<1>11. CASE \E use \in Uses : \E h \in held : Carry(use, h)
  BY <1>11 DEF Carry
<1>12. CASE \E c \in carried : HandBack(c[1], c[2])
  BY <1>12 DEF HandBack
<1>13. CASE \E h \in stale : Drop(h)
  BY <1>13 DEF Drop
<1> QED BY <1>2, <1>3, <1>4, <1>5, <1>6, <1>7, <1>8, <1>9, <1>10, <1>11, <1>12, <1>13
        DEF Next, Proceed

THEOREM CollectorIsArena == Spec => ArenaSpec
<1>1. Init => ArenaInit
  BY DEF Init
<1>2. [Next]_vars => [ArenaNext]_arenaVars
  BY StepsAreTheArenas
<1> QED BY <1>1, <1>2, PTL DEF Spec, ArenaSpec

(* A handle names its own object or nothing, whatever has been collected   *)
(* and made since.                                                         *)
THEOREM HandlesNameTheirOwn == Spec => []OwnValueOrNothing
<1> QED BY CollectorIsArena, NamesOwnValue, PTL

(* A freed slot is on the free list, once, or is retired.                  *)
THEOREM FreedIsReusable == Spec => []NothingLeaks
<1> QED BY CollectorIsArena, NoSlotLost, PTL

(* A WeakRef whose target was collected never answers again.               *)
THEOREM CollectedForGood == Spec => GoneForGood
<1> QED BY CollectorIsArena, StaleForEver, PTL

-----------------------------------------------------------------------------
(* A collection is exact.                                                  *)

LEMMA ClosedIs ==
    ASSUME NEW S \in SUBSET Occupied
    PROVE  /\ Closed(S, Maps(Occupied)) <=>
                SlotsOf(held) \subseteq S /\ StrongClosed(S) /\ WeakClosed(S)
           /\ Closed(S, Maps(Occupied)) => Closed(S, Maps(S))
<1>1. (\A i \in Maps(Occupied) : \A e \in entries[slots[i]] :
          Slot(e.key) \in S => Slot(e.value) \in S) <=> WeakClosed(S)
  BY DEF WeakClosed, WeakEntries, Maps
<1>2. Closed(S, Maps(Occupied)) <=>
         SlotsOf(held) \subseteq S /\ StrongClosed(S) /\ WeakClosed(S)
  BY <1>1 DEF Closed, SlotsOf, StrongClosed
<1>3. Maps(S) \subseteq Maps(Occupied)
  BY DEF Maps
<1>4. Closed(S, Maps(Occupied)) => Closed(S, Maps(S))
  BY <1>3 DEF Closed
<1> QED BY <1>2, <1>4

LEMMA CollectingIsExact ==
    ASSUME CollectorInv, Collect
    PROVE  /\ \A i \in Reachable : slots'[i] = slots[i]
           /\ Occupied' = ReachableByAnyMap
<1>1. /\ Marks \in SUBSET Occupied /\ SlotsOf(held) \subseteq Marks
      /\ StrongClosed(Marks) /\ WeakClosed(Marks)
      /\ \A S \in SUBSET Occupied :
            /\ SlotsOf(held) \subseteq S /\ StrongClosed(S) /\ WeakClosed(S)
            => Marks \subseteq S
  BY MarksReach DEF CollectorInv
<1>2. Occupied' = Marks /\ \A i \in Marks : slots'[i] = slots[i]
  BY CollectDoes
<1>3. Closed(Marks, Maps(Occupied)) /\ Closed(Marks, Maps(Marks))
  BY <1>1, ClosedIs
<1>4. Reachable \subseteq Marks
  BY <1>1, <1>3 DEF Reachable
<1>5. ReachableByAnyMap \subseteq Marks
  BY <1>1, <1>3 DEF ReachableByAnyMap
<1>6. ASSUME NEW i \in Marks
      PROVE  i \in ReachableByAnyMap
  <2>1. \A S \in SUBSET Occupied : Closed(S, Maps(Occupied)) => i \in S
    BY <1>1, ClosedIs
  <2> QED BY <1>1, <2>1 DEF ReachableByAnyMap
<1> QED BY <1>2, <1>4, <1>5, <1>6

(* A collection frees nothing the program can reach, and keeps nothing but *)
(* that and the values of entries whose key is alive.                      *)
THEOREM CollectionIsExact == Spec => CollectsExactly
<1>1. CollectorInv =>
         (Collecting => /\ \A i \in Reachable : slots'[i] = slots[i]
                        /\ Occupied' = ReachableByAnyMap)
  BY CollectingIsExact DEF Collecting
<1> QED BY <1>1, CollectorHolds, PTL DEF CollectsExactly

-----------------------------------------------------------------------------
(* Entries stay as long as their keys.                                     *)

EntriesStay ==
    \A i \in Occupied \cap Occupied' :
        \A e \in entries[slots[i]] :
            \/ Get(e.key)' = None
            \/ \E f \in entries'[slots[i]] : f.key = e.key

LEMMA StepKeepsEntries ==
    ASSUME CollectorInv, [Next]_vars
    PROVE  EntriesStay
<1> SUFFICES ASSUME NEW i \in Occupied, i \in Occupied', NEW e \in entries[slots[i]]
             PROVE  \/ Get(e.key)' = None
                    \/ \E f \in entries'[slots[i]] : f.key = e.key
  BY DEF EntriesStay
<1>1. slots[i] \in Objects /\ entries \in [Objects -> SUBSET Entries]
      /\ e.key \in Live
  BY DEF CollectorInv, TypeOK, Sound, ArenaInv, ArenaTypeOK, Occupied, Objects
<1>2. CASE entries' = entries
  BY <1>2
<1>3. CASE \E h, key, value \in held : Put(h, key, value) \/ Register(h, key, value)
  <2> PICK h \in held, key \in held, value \in held :
              Put(h, key, value) \/ Register(h, key, value)
    BY <1>3
  <2> DEFINE entry == [key |-> key, value |-> value]
  <2>1. Get(h) \in Objects
    BY HeldIsThere
  <2>2. CASE Put(h, key, value)
    <3>1. entries' = [entries EXCEPT ![Get(h)] =
                         {f \in entries[Get(h)] : f.key # key} \cup {entry}]
      BY <2>2 DEF Put
    <3>2. entry.key = key
      OBVIOUS
    <3> HIDE DEF entry
    <3>3. CASE slots[i] # Get(h)
      BY <1>1, <3>1, <3>3
    <3>4. CASE slots[i] = Get(h)
      <4>1. entries'[slots[i]] = {f \in entries[slots[i]] : f.key # key} \cup {entry}
        BY <1>1, <3>1, <3>4
      <4> QED BY <3>2, <4>1
    <3> QED BY <3>3, <3>4
  <2>3. CASE Register(h, key, value)
    <3>1. entries' = [entries EXCEPT ![Get(h)] = entries[Get(h)] \cup {entry}]
      BY <2>3 DEF Register
    <3> HIDE DEF entry
    <3>2. e \in entries'[slots[i]]
      BY <1>1, <2>1, <3>1
    <3> QED BY <3>2
  <2> QED BY <2>2, <2>3
<1>4. CASE Collect
  <2>1. /\ i \in Marks
        /\ DOMAIN slots' = DOMAIN slots
        /\ \A j \in DOMAIN slots \ Marks : slots'[j] = None
        /\ entries' = [o \in Objects |-> IF o \in {slots[j] : j \in Marks}
                          THEN {f \in entries[o] : Slot(f.key) \in Marks} ELSE {}]
    BY <1>4, CollectDoes
  <2>2. entries'[slots[i]] = {f \in entries[slots[i]] : Slot(f.key) \in Marks}
    BY <1>1, <2>1
  <2>3. CASE Slot(e.key) \in Marks
    BY <2>2, <2>3
  <2>4. CASE Slot(e.key) \notin Marks
    <3>1. Slot(e.key) = e.key[1] /\ e.key[1] \in DOMAIN slots
      BY <1>1, LiveNames DEF Occupied
    <3> QED BY <2>1, <2>4, <3>1 DEF Get
  <2> QED BY <2>3, <2>4
<1>5. \/ entries' = entries \/ Collect
      \/ \E h, key, value \in held : Put(h, key, value) \/ Register(h, key, value)
  BY DEF Next, Proceed, vars, contents, New, NewRef, Make, Link, Unlink, Read, Lookup, Deref,
         Forget, NativeReads, NativeReturns, Carry, HandBack, Drop
<1> QED BY <1>2, <1>3, <1>4, <1>5

(* An entry leaves a collection that is still there only because its key   *)
(* has gone, or for another of the same key.                               *)
THEOREM EntriesKept == Spec => EntriesFollowKeys
<1>1. CollectorInv /\ [Next]_vars => EntriesStay
  BY StepKeepsEntries
<1> QED BY <1>1, CollectorHolds, PTL DEF Spec, EntriesFollowKeys, EntriesStay

-----------------------------------------------------------------------------
(* A shared block.                                                         *)

WaitEntries == [id : Waits, slot : Slots, expected : SlotValues]
Parkings == [promise : Promises, slot : Slots, timed : BOOLEAN]
Noticing == [from : {"script", "job"}, slot : Slots, left : Int]
Locals == {Idle} \cup Waiting \cup Noticing \cup Growing

BlockTypes ==
    /\ waiters \in Seq(WaitEntries)
    /\ next \in 1..MaxWaits + 1
    /\ phase \in [Agents -> Phases]
    /\ local \in [Agents -> Locals]
    /\ \A a \in Agents : /\ phase[a] = "waiting" => local[a] \in Waiting
                         /\ phase[a] = "growing" => local[a] \in Growing
                         /\ local[a].from \in {"script", "job"}
    /\ answer \in [Waits -> {"none", "ok", "timed-out"}]
    /\ taken \subseteq Waits

(* A wait has one name: entries are told apart by it, threads too, and no  *)
(* name is used before it is given out.                                    *)
NamesAreOwn ==
    /\ \A i, j \in DOMAIN waiters : waiters[i].id = waiters[j].id => i = j
    /\ \A i \in DOMAIN waiters : waiters[i].id < next
    /\ \A a \in Agents : phase[a] = "waiting" => local[a].id < next
    /\ \A a, b \in Agents :
          phase[a] = "waiting" /\ phase[b] = "waiting" /\ local[a].id = local[b].id
             => a = b
    /\ \A w \in Waits : w >= next => answer[w] = "none" /\ w \notin taken

(* Where each wait stands: on the list, taken off it, or out of time.      *)
WaitStands(w) ==
    \/ w \in taken /\ ~Listed(w) /\ answer[w] \in {"none", "ok"}
    \/ w \notin taken /\ ~Listed(w) /\ answer[w] = "timed-out"
    \/ w \notin taken /\ Listed(w) /\ answer[w] = "none"

WaitsInv ==
    /\ BlockTypes /\ NamesAreOwn
    /\ \A w \in Waits : w < next => WaitStands(w)
    /\ \A a \in Agents : phase[a] = "waiting" => answer[local[a].id] = "none"

-----------------------------------------------------------------------------
(* What taking entries off a list leaves (`retain` in Block::notify and in *)
(* Vm::take_waiters): `order` says where each entry that is left stood.    *)
LEMMA Remaining ==
    ASSUME NEW S, NEW list \in Seq(S), NEW gone, NEW left \in Without(list, gone)
    PROVE  /\ left \in Seq(S)
           /\ \A k \in DOMAIN left :
                 \E i \in DOMAIN list \ gone : left[k] = list[i]
           /\ \A i \in DOMAIN list \ gone :
                 \E k \in DOMAIN left : left[k] = list[i]
           /\ \A k, m \in DOMAIN left : k # m =>
                 \E i, j \in DOMAIN list \ gone :
                    i # j /\ left[k] = list[i] /\ left[m] = list[j]
<1> DEFINE stays == DOMAIN list \ gone
<1>1. PICK order \in InListOrder(stays) : left = [i \in DOMAIN order |-> list[order[i]]]
  BY DEF Without
<1>2. IsFiniteSet(stays) /\ stays \subseteq DOMAIN list
  <2>1. DOMAIN list = 1..Len(list) /\ Len(list) \in Nat
    OBVIOUS
  <2>2. IsFiniteSet(DOMAIN list)
    BY <2>1, FS_Interval
  <2> QED BY <2>2, FS_Subset
<1>3. Cardinality(stays) \in Nat
  BY <1>2, FS_CardinalityType
<1> DEFINE n == Cardinality(stays)
<1>4. /\ order \in [1..n -> stays]
      /\ \A j, k \in DOMAIN order : j < k => order[j] < order[k]
      /\ \A i \in stays : \E j \in DOMAIN order : order[j] = i
  BY <1>1 DEF InListOrder
<1>5. stays \subseteq Nat
  BY <1>2
<1> HIDE DEF n, stays
<1>6. /\ DOMAIN order = 1..n /\ DOMAIN left = 1..n /\ n \in Nat
      /\ \A k \in 1..n : order[k] \in stays /\ left[k] = list[order[k]]
  BY <1>1, <1>3, <1>4 DEF n
<1>7. \A k \in 1..n : left[k] \in S
  BY <1>6, <1>2
<1>8. left \in Seq(S)
  <2>1. left = [i \in 1..n |-> left[i]]
    BY <1>1, <1>6
  <2>2. [i \in 1..n |-> left[i]] \in Seq(S)
    BY <1>6, <1>7
  <2> QED BY <2>1, <2>2
<1>9. \A k, m \in 1..n : k # m => order[k] # order[m]
  <2> SUFFICES ASSUME NEW k \in 1..n, NEW m \in 1..n, k # m PROVE order[k] # order[m]
    OBVIOUS
  <2>1. k < m \/ m < k
    BY <1>6
  <2>2. order[k] \in Nat /\ order[m] \in Nat
    BY <1>5, <1>6
  <2> QED BY <2>1, <2>2, <1>4, <1>6
<1>10. \A i \in stays : \E k \in 1..n : left[k] = list[i]
  BY <1>4, <1>6
<1>11. \A k, m \in 1..n : k # m =>
          \E i, j \in stays : i # j /\ left[k] = list[i] /\ left[m] = list[j]
  BY <1>6, <1>9
<1>12. \A k \in 1..n : \E i \in stays : left[k] = list[i]
  BY <1>6
<1>13. stays = DOMAIN list \ gone
  BY DEF stays
<1>14. DOMAIN left = 1..n
  BY <1>6
<1>15. \A k \in DOMAIN left : \E i \in DOMAIN list \ gone : left[k] = list[i]
  BY ONLY <1>12, <1>13, <1>14
<1>16. \A i \in DOMAIN list \ gone : \E k \in DOMAIN left : left[k] = list[i]
  BY ONLY <1>10, <1>13, <1>14
<1>17. \A k, m \in DOMAIN left : k # m =>
          \E i, j \in DOMAIN list \ gone :
             i # j /\ left[k] = list[i] /\ left[m] = list[j]
  BY ONLY <1>11, <1>13, <1>14
<1> QED BY <1>8, <1>15, <1>16, <1>17

LEMMA WaitersLeft ==
    ASSUME waiters \in Seq(WaitEntries), NEW gone, waiters' \in Without(waiters, gone),
           \A i, j \in DOMAIN waiters : waiters[i].id = waiters[j].id => i = j
    PROVE  /\ waiters' \in Seq(WaitEntries)
           /\ \A i, j \in DOMAIN waiters' : waiters'[i].id = waiters'[j].id => i = j
           /\ \A k \in DOMAIN waiters' : \E i \in DOMAIN waiters : waiters'[k] = waiters[i]
           /\ \A w : Listed(w)' <=> \E i \in DOMAIN waiters \ gone : waiters[i].id = w
<1>1. /\ waiters' \in Seq(WaitEntries)
      /\ \A k \in DOMAIN waiters' :
            \E i \in DOMAIN waiters \ gone : waiters'[k] = waiters[i]
      /\ \A i \in DOMAIN waiters \ gone :
            \E k \in DOMAIN waiters' : waiters'[k] = waiters[i]
      /\ \A k, m \in DOMAIN waiters' : k # m =>
            \E i, j \in DOMAIN waiters \ gone :
               i # j /\ waiters'[k] = waiters[i] /\ waiters'[m] = waiters[j]
  BY Remaining
<1>2. \A i, j \in DOMAIN waiters' : waiters'[i].id = waiters'[j].id => i = j
  <2> SUFFICES ASSUME NEW k \in DOMAIN waiters', NEW m \in DOMAIN waiters', k # m
               PROVE  waiters'[k].id # waiters'[m].id
    OBVIOUS
  <2>1. PICK i, j \in DOMAIN waiters \ gone :
           i # j /\ waiters'[k] = waiters[i] /\ waiters'[m] = waiters[j]
    BY <1>1
  <2>2. waiters[i].id # waiters[j].id
    BY <2>1
  <2> QED BY <2>1, <2>2
<1>3. \A w : Listed(w)' <=> \E i \in DOMAIN waiters \ gone : waiters[i].id = w
  BY <1>1, SMTT(30) DEF Listed, Places
<1> QED BY <1>1, <1>2, <1>3

LEMMA WaiterJoined ==
    ASSUME waiters \in Seq(WaitEntries), NEW e \in WaitEntries, waiters' = Append(waiters, e),
           \A i, j \in DOMAIN waiters : waiters[i].id = waiters[j].id => i = j,
           \A i \in DOMAIN waiters : waiters[i].id # e.id
    PROVE  /\ waiters' \in Seq(WaitEntries)
           /\ \A i, j \in DOMAIN waiters' : waiters'[i].id = waiters'[j].id => i = j
           /\ \A k \in DOMAIN waiters' :
                 \/ k \in DOMAIN waiters /\ waiters'[k] = waiters[k]
                 \/ k = Len(waiters) + 1 /\ waiters'[k] = e
           /\ \A w : Listed(w)' <=> Listed(w) \/ w = e.id
<1>1. /\ waiters' \in Seq(WaitEntries)
      /\ Len(waiters') = Len(waiters) + 1
      /\ \A k \in DOMAIN waiters : k \in DOMAIN waiters' /\ waiters'[k] = waiters[k]
      /\ Len(waiters) + 1 \in DOMAIN waiters' /\ waiters'[Len(waiters) + 1] = e
      /\ \A k \in DOMAIN waiters' : k \in DOMAIN waiters \/ k = Len(waiters) + 1
  OBVIOUS
<1>2. \A i, j \in DOMAIN waiters' : waiters'[i].id = waiters'[j].id => i = j
  BY <1>1
<1>3. \A w : Listed(w)' <=> Listed(w) \/ w = e.id
  BY <1>1 DEF Listed, Places
<1> QED BY <1>1, <1>2, <1>3

-----------------------------------------------------------------------------

LEMMA NamesAreNumbers == Waits \subseteq Nat /\ Promises \subseteq Nat
  BY SharedBlockAssumption DEF Waits, Promises

LEMMA InitWaits == BlockInit => WaitsInv
<1> SUFFICES ASSUME BlockInit PROVE WaitsInv
  OBVIOUS
<1>1. waiters = <<>> /\ next = 1 /\ taken = {}
  BY DEF BlockInit
<1>2. waiters \in Seq(WaitEntries) /\ DOMAIN waiters = {}
  BY <1>1
<1>3. next \in 1..MaxWaits + 1
  BY <1>1, SharedBlockAssumption
<1>4. \A a \in Agents : phase[a] = "script"
  BY DEF BlockInit
<1>5. BlockTypes
  BY <1>1, <1>2, <1>3, <1>4 DEF BlockInit, BlockTypes, Phases, Locals, Idle
<1>6. NamesAreOwn
  <2>1. \A w \in Waits : answer[w] = "none" /\ w \notin taken
    BY <1>1 DEF BlockInit
  <2>2. \A i \in DOMAIN waiters : FALSE
    BY <1>2
  <2>3. \A a \in Agents : phase[a] # "waiting"
    BY <1>4
  <2> QED BY <2>1, <2>2, <2>3 DEF NamesAreOwn
<1>7. \A w \in Waits : ~(w < next)
  BY <1>1, SharedBlockAssumption DEF Waits
<1> QED BY <1>4, <1>5, <1>6, <1>7 DEF WaitsInv

(* Most steps touch neither the list nor a name.                           *)
LEMMA ElsewhereKeeps ==
    ASSUME WaitsInv, UNCHANGED <<waiters, next, answer, taken>>,
           phase' \in [Agents -> Phases], local' \in [Agents -> Locals],
           \A a \in Agents : /\ local'[a].from \in {"script", "job"}
                             /\ phase'[a] = "growing" => local'[a] \in Growing,
           \A a \in Agents : phase'[a] = "waiting" =>
              phase[a] = "waiting" /\ local'[a] = local[a]
    PROVE  WaitsInv'
<1>1. BlockTypes'
  <2>1. \A a \in Agents : /\ phase'[a] = "waiting" => local'[a] \in Waiting
                          /\ phase'[a] = "growing" => local'[a] \in Growing
                          /\ local'[a].from \in {"script", "job"}
    <3>1. \A a \in Agents : phase[a] = "waiting" => local[a] \in Waiting
      BY DEF WaitsInv, BlockTypes
    <3>2. \A a \in Agents : phase'[a] = "waiting" => local'[a] \in Waiting
      BY <3>1
    <3> QED BY <3>2
  <2> QED BY <2>1 DEF WaitsInv, BlockTypes
<1>2. NamesAreOwn'
  <2>1. /\ waiters' = waiters /\ next' = next /\ answer' = answer /\ taken' = taken
        /\ NamesAreOwn
    BY DEF WaitsInv
  <2>2. \A a \in Agents : phase'[a] = "waiting" => local'[a].id < next'
    BY <2>1 DEF NamesAreOwn
  <2>3. \A a, b \in Agents :
          phase'[a] = "waiting" /\ phase'[b] = "waiting" /\ local'[a].id = local'[b].id
             => a = b
    <3> SUFFICES ASSUME NEW a \in Agents, NEW b \in Agents,
                        phase'[a] = "waiting", phase'[b] = "waiting",
                        local'[a].id = local'[b].id
                 PROVE  a = b
      OBVIOUS
    <3>1. /\ phase[a] = "waiting" /\ local'[a] = local[a]
          /\ phase[b] = "waiting" /\ local'[b] = local[b]
      OBVIOUS
    <3> QED BY <2>1, <3>1 DEF NamesAreOwn
  <2> QED BY <2>1, <2>2, <2>3 DEF NamesAreOwn
<1>3. \A w \in Waits : w < next' => WaitStands(w)'
  BY DEF WaitsInv, WaitStands, Listed, Places
<1> QED BY <1>1, <1>2, <1>3 DEF WaitsInv

LEMMA ParkKeeps ==
    ASSUME WaitsInv, NEW a \in Agents, NEW s \in Slots, NEW v \in SlotValues,
           NEW timed \in BOOLEAN, Park(a, s, v, timed)
    PROVE  WaitsInv'
<1> DEFINE e == [id |-> next, slot |-> s, expected |-> v]
<1>1. /\ waiters' = Append(waiters, e) /\ next' = next + 1 /\ next <= MaxWaits
      /\ phase' = [phase EXCEPT ![a] = "waiting"]
      /\ local' = [local EXCEPT ![a] =
                      [from |-> phase[a], id |-> next, slot |-> s, timed |-> timed]]
      /\ answer' = answer /\ taken' = taken
      /\ phase[a] \in {"script", "job"}
  BY DEF Park, Join, Running
<1>2. BlockTypes /\ NamesAreOwn
  BY DEF WaitsInv
<1>3. next \in Waits /\ next' \in 1..MaxWaits + 1 /\ next \in Nat
  BY <1>1, <1>2, SharedBlockAssumption DEF BlockTypes, Waits
<1>4. e \in WaitEntries /\ e.id = next
  BY <1>3 DEF WaitEntries
<1> HIDE DEF e
<1>5. \A i \in DOMAIN waiters : waiters[i].id # next
  BY <1>2, <1>3 DEF NamesAreOwn, BlockTypes, WaitEntries, Waits
<1>6. /\ waiters' \in Seq(WaitEntries)
      /\ \A i, j \in DOMAIN waiters' : waiters'[i].id = waiters'[j].id => i = j
      /\ \A k \in DOMAIN waiters' :
            \/ k \in DOMAIN waiters /\ waiters'[k] = waiters[k]
            \/ k = Len(waiters) + 1 /\ waiters'[k] = e
      /\ \A w : Listed(w)' <=> Listed(w) \/ w = e.id
  BY <1>1, <1>2, <1>4, <1>5, WaiterJoined DEF BlockTypes, NamesAreOwn
<1>7. /\ phase'[a] = "waiting" /\ local'[a].id = next /\ local'[a] \in Waiting
      /\ \A b \in Agents \ {a} : phase'[b] = phase[b] /\ local'[b] = local[b]
  BY <1>1, <1>2, <1>3 DEF BlockTypes, Waiting
<1>8. BlockTypes'
  <2>1. phase' \in [Agents -> Phases] /\ local' \in [Agents -> Locals]
    BY <1>1, <1>2, <1>7 DEF BlockTypes, Phases, Locals
  <2>2. \A b \in Agents : /\ phase'[b] = "waiting" => local'[b] \in Waiting
                          /\ phase'[b] = "growing" => local'[b] \in Growing
                          /\ local'[b].from \in {"script", "job"}
    BY <1>2, <1>7 DEF BlockTypes, Waiting
  <2> QED BY <1>1, <1>2, <1>3, <1>6, <2>1, <2>2 DEF BlockTypes
<1>9. \A b \in Agents : phase[b] = "waiting" => local[b].id \in Waits
  BY <1>2 DEF BlockTypes, Waiting
<1>10. NamesAreOwn'
  <2>1. \A i \in DOMAIN waiters : waiters[i].id \in Nat
    <3>1. \A i \in DOMAIN waiters : waiters[i] \in WaitEntries
      BY <1>2 DEF BlockTypes
    <3> QED BY <3>1, NamesAreNumbers DEF WaitEntries
  <2>2. \A i \in DOMAIN waiters' : waiters'[i].id < next'
    BY <1>1, <1>2, <1>3, <1>4, <1>6, <2>1 DEF NamesAreOwn
  <2>3. \A b \in Agents : phase'[b] = "waiting" => local'[b].id < next'
    BY <1>1, <1>2, <1>3, <1>7, <1>9 DEF NamesAreOwn, Waits
  <2>4. \A b, c \in Agents :
          phase'[b] = "waiting" /\ phase'[c] = "waiting" /\ local'[b].id = local'[c].id
             => b = c
    BY <1>2, <1>3, <1>7, <1>9 DEF NamesAreOwn, Waits
  <2>5. \A w \in Waits : w >= next' => answer'[w] = "none" /\ w \notin taken'
    BY <1>1, <1>2, <1>3 DEF NamesAreOwn, Waits
  <2> QED BY <1>6, <2>2, <2>3, <2>4, <2>5 DEF NamesAreOwn
<1>11. ASSUME NEW w \in Waits, w < next' PROVE WaitStands(w)'
  <2>1. CASE w = next
    BY <1>1, <1>2, <1>3, <1>4, <1>6, <2>1 DEF WaitStands, NamesAreOwn
  <2>2. CASE w # next
    <3>1. w < next
      BY <1>1, <1>3, <1>11, <2>2 DEF Waits
    <3> QED BY <1>1, <1>4, <1>6, <2>2, <3>1 DEF WaitsInv, WaitStands
  <2> QED BY <2>1, <2>2
<1>12. \A b \in Agents : phase'[b] = "waiting" => answer'[local'[b].id] = "none"
  BY <1>1, <1>2, <1>3, <1>7 DEF WaitsInv, NamesAreOwn
<1> QED BY <1>8, <1>10, <1>11, <1>12 DEF WaitsInv

LEMMA WaitElapsedKeeps ==
    ASSUME WaitsInv, NEW a \in Agents, NEW s \in Slots, NEW v \in SlotValues,
           WaitElapsed(a, s, v)
    PROVE  WaitsInv'
<1>1. /\ next' = next + 1 /\ next <= MaxWaits
      /\ answer' = [answer EXCEPT ![next] = "timed-out"]
      /\ waiters' = waiters /\ phase' = phase /\ local' = local /\ taken' = taken
  BY DEF WaitElapsed
<1>2. BlockTypes /\ NamesAreOwn
  BY DEF WaitsInv
<1>3. next \in Waits /\ next' \in 1..MaxWaits + 1 /\ next \in Nat
  BY <1>1, <1>2, SharedBlockAssumption DEF BlockTypes, Waits
<1>4. /\ answer' \in [Waits -> {"none", "ok", "timed-out"}]
      /\ answer'[next] = "timed-out"
      /\ \A w \in Waits \ {next} : answer'[w] = answer[w]
  BY <1>1, <1>2, <1>3 DEF BlockTypes
<1>5. BlockTypes'
  BY <1>1, <1>2, <1>3, <1>4 DEF BlockTypes
<1>6. /\ \A i \in DOMAIN waiters : waiters[i].id \in Waits /\ waiters[i].id < next
      /\ \A b \in Agents : phase[b] = "waiting" =>
            local[b].id \in Waits /\ local[b].id < next
  <2>1. \A i \in DOMAIN waiters : waiters[i] \in WaitEntries
    BY <1>2 DEF BlockTypes
  <2>2. \A b \in Agents : phase[b] = "waiting" => local[b] \in Waiting
    BY <1>2 DEF BlockTypes
  <2> QED BY <1>2, <2>1, <2>2 DEF NamesAreOwn, Waiting, WaitEntries
<1>7. \A w \in Waits : w < next => w < next' /\ w # next
  BY <1>1, <1>3, NamesAreNumbers
<1>8. NamesAreOwn'
  <2>1. \A w \in Waits : w >= next' => w >= next /\ w # next
    BY <1>1, <1>3, NamesAreNumbers
  <2>2. \A w \in Waits : w >= next' => answer'[w] = "none" /\ w \notin taken'
    BY <1>1, <1>2, <1>4, <2>1 DEF NamesAreOwn
  <2> QED BY <1>1, <1>2, <1>6, <1>7, <2>2 DEF NamesAreOwn
<1>9. ASSUME NEW w \in Waits, w < next' PROVE WaitStands(w)'
  <2>1. Listed(w)' <=> Listed(w)
    BY <1>1 DEF Listed, Places
  <2>2. CASE w = next
    <3>1. ~Listed(w)
      BY <1>3, <1>6, <2>2 DEF Listed, Places
    <3>2. w \notin taken
      BY <1>2, <1>3, <2>2 DEF NamesAreOwn
    <3> QED BY <1>1, <1>4, <2>1, <2>2, <3>1, <3>2 DEF WaitStands
  <2>3. CASE w # next
    <3>1. w < next
      BY <1>1, <1>3, <1>9, <2>3, NamesAreNumbers
    <3> QED BY <1>1, <1>4, <2>1, <2>3, <3>1 DEF WaitsInv, WaitStands
  <2> QED BY <2>2, <2>3
<1>10. \A b \in Agents : phase'[b] = "waiting" => answer'[local'[b].id] = "none"
  BY <1>1, <1>4, <1>6, <1>7 DEF WaitsInv
<1> QED BY <1>5, <1>8, <1>9, <1>10 DEF WaitsInv

(* A thread that goes leaves the list without its name and its answer for  *)
(* ever.                                                                   *)
LEMMA EndKeeps ==
    ASSUME WaitsInv, NEW a \in Agents, phase[a] = "waiting",
           NEW how \in {"ok", "timed-out"}, End(a, how),
           UNCHANGED <<next, taken>>,
           \/ how = "ok" /\ ~Listed(local[a].id) /\ UNCHANGED waiters
           \/ /\ how = "timed-out" /\ Listed(local[a].id)
              /\ waiters' \in Without(waiters, Places(local[a].id))
    PROVE  WaitsInv'
<1> DEFINE id == local[a].id
<1>1. /\ answer' = [answer EXCEPT ![id] = how]
      /\ phase' = [phase EXCEPT ![a] = local[a].from]
      /\ local' = [local EXCEPT ![a] = Idle]
      /\ next' = next /\ taken' = taken
  BY DEF End, Resume
<1>2. BlockTypes /\ NamesAreOwn
  BY DEF WaitsInv
<1>3. id \in Waits /\ id < next /\ answer[id] = "none" /\ local[a].from \in {"script", "job"}
  BY <1>2 DEF WaitsInv, BlockTypes, NamesAreOwn, Waiting
<1> HIDE DEF id
<1>4. /\ phase' \in [Agents -> Phases] /\ phase'[a] \notin {"waiting", "growing"}
      /\ local' \in [Agents -> Locals] /\ local'[a].from \in {"script", "job"}
      /\ \A b \in Agents \ {a} : phase'[b] = phase[b] /\ local'[b] = local[b]
  BY <1>1, <1>2, <1>3 DEF BlockTypes, Phases, Locals, Idle
<1>5. /\ answer' \in [Waits -> {"none", "ok", "timed-out"}]
      /\ answer'[id] = how
      /\ \A w \in Waits \ {id} : answer'[w] = answer[w]
  BY <1>1, <1>2, <1>3 DEF BlockTypes
<1>6. /\ waiters' \in Seq(WaitEntries)
      /\ \A i, j \in DOMAIN waiters' : waiters'[i].id = waiters'[j].id => i = j
      /\ \A k \in DOMAIN waiters' : \E i \in DOMAIN waiters : waiters'[k] = waiters[i]
      /\ \A w : Listed(w)' <=> Listed(w) /\ w # id
  <2>1. CASE how = "ok"
    <3>1. waiters' = waiters /\ ~Listed(id)
      BY <2>1 DEF id
    <3>2. \A w : Listed(w)' <=> Listed(w)
      BY <3>1 DEF Listed, Places
    <3> QED BY <1>2, <3>1, <3>2 DEF BlockTypes, NamesAreOwn
  <2>2. CASE how = "timed-out"
    <3>1. waiters' \in Without(waiters, Places(id))
      BY <2>2 DEF id
    <3>2. /\ waiters' \in Seq(WaitEntries)
          /\ \A i, j \in DOMAIN waiters' : waiters'[i].id = waiters'[j].id => i = j
          /\ \A k \in DOMAIN waiters' : \E i \in DOMAIN waiters : waiters'[k] = waiters[i]
          /\ \A w : Listed(w)' <=>
                \E i \in DOMAIN waiters \ Places(id) : waiters[i].id = w
      BY <1>2, <3>1, WaitersLeft DEF BlockTypes, NamesAreOwn
    <3>3. \A w : (\E i \in DOMAIN waiters \ Places(id) : waiters[i].id = w)
                   <=> Listed(w) /\ w # id
      BY DEF Listed, Places
    <3> QED BY <3>2, <3>3
  <2> QED BY <2>1, <2>2
<1>7. \A b \in Agents : phase'[b] = "waiting" =>
         /\ b # a /\ phase[b] = "waiting" /\ local'[b] = local[b]
         /\ local[b].id # id /\ local[b].id \in Waits
  <2> SUFFICES ASSUME NEW b \in Agents, phase'[b] = "waiting"
               PROVE  /\ b # a /\ phase[b] = "waiting" /\ local'[b] = local[b]
                      /\ local[b].id # id /\ local[b].id \in Waits
    OBVIOUS
  <2>1. b # a /\ phase[b] = "waiting" /\ local'[b] = local[b]
    BY <1>4
  <2>2. local[b].id # local[a].id
    BY <1>2, <2>1 DEF NamesAreOwn
  <2>3. local[b].id \in Waits
    BY <1>2, <2>1 DEF BlockTypes, Waiting
  <2> QED BY <2>1, <2>2, <2>3 DEF id
<1>8. BlockTypes'
  <2>1. \A b \in Agents : /\ phase'[b] = "waiting" => local'[b] \in Waiting
                          /\ phase'[b] = "growing" => local'[b] \in Growing
                          /\ local'[b].from \in {"script", "job"}
    BY <1>2, <1>4, <1>7 DEF BlockTypes
  <2> QED BY <1>1, <1>2, <1>4, <1>5, <1>6, <2>1 DEF BlockTypes
<1>9. NamesAreOwn'
  <2>1. \A i \in DOMAIN waiters' : waiters'[i].id < next'
    BY <1>1, <1>2, <1>6 DEF NamesAreOwn
  <2>2. \A b \in Agents : phase'[b] = "waiting" => local'[b].id < next'
    BY <1>1, <1>2, <1>7 DEF NamesAreOwn
  <2>3. \A b, c \in Agents :
          phase'[b] = "waiting" /\ phase'[c] = "waiting" /\ local'[b].id = local'[c].id
             => b = c
    BY <1>2, <1>7 DEF NamesAreOwn
  <2>4. \A w \in Waits : w >= next' => w # id
    BY <1>1, <1>2, <1>3, NamesAreNumbers DEF BlockTypes
  <2>5. \A w \in Waits : w >= next' => answer'[w] = "none" /\ w \notin taken'
    BY <1>1, <1>2, <1>5, <2>4 DEF NamesAreOwn
  <2> QED BY <1>6, <2>1, <2>2, <2>3, <2>5 DEF NamesAreOwn
<1>10. ASSUME NEW w \in Waits, w < next' PROVE WaitStands(w)'
  <2>1. WaitStands(w)
    BY <1>1, <1>10 DEF WaitsInv
  <2>2. CASE w # id
    BY <1>1, <1>5, <1>6, <2>1, <2>2 DEF WaitStands
  <2>3. CASE w = id
    <3>1. (how = "ok" /\ ~Listed(id)) \/ (how = "timed-out" /\ Listed(id))
      BY DEF id
    <3> QED BY <1>1, <1>3, <1>5, <1>6, <2>1, <2>3, <3>1 DEF WaitStands
  <2> QED BY <2>2, <2>3
<1>11. \A b \in Agents : phase'[b] = "waiting" => answer'[local'[b].id] = "none"
  BY <1>5, <1>7 DEF WaitsInv
<1> QED BY <1>8, <1>9, <1>10, <1>11 DEF WaitsInv

LEMMA RecheckKeeps ==
    ASSUME WaitsInv, NEW a \in Agents, Recheck(a)
    PROVE  WaitsInv'
<1>1. /\ phase[a] = "waiting" /\ next' = next /\ taken' = taken
      /\ \/ ~Listed(local[a].id) /\ End(a, "ok") /\ waiters' = waiters
         \/ /\ Listed(local[a].id) /\ End(a, "timed-out")
            /\ waiters' \in Without(waiters, Places(local[a].id))
         \/ UNCHANGED <<waiters, answer, phase, local>>
  BY DEF Recheck
<1>2. CASE ~Listed(local[a].id) /\ End(a, "ok") /\ waiters' = waiters
  BY <1>1, <1>2, EndKeeps
<1>3. CASE /\ Listed(local[a].id) /\ End(a, "timed-out")
           /\ waiters' \in Without(waiters, Places(local[a].id))
  BY <1>1, <1>3, EndKeeps
<1>4. CASE UNCHANGED <<waiters, answer, phase, local>>
  BY <1>1, <1>4, ElsewhereKeeps DEF WaitsInv, BlockTypes
<1> QED BY <1>1, <1>2, <1>3, <1>4

LEMMA NotifyBlockKeeps ==
    ASSUME WaitsInv, NEW a \in Agents, NEW s \in Slots, NEW count \in Nat,
           NotifyBlock(a, s, count)
    PROVE  WaitsInv'
<1> DEFINE gone == FirstOn(waiters, s, count)
           names == {waiters[i].id : i \in gone}
<1>1. /\ Running(a) /\ waiters' \in Without(waiters, gone)
      /\ taken' = taken \cup names
      /\ phase' = [phase EXCEPT ![a] = "notifying"]
      /\ local' = [local EXCEPT ![a] = [from |-> phase[a], slot |-> s,
                                        left |-> count - Cardinality(gone)]]
      /\ next' = next /\ answer' = answer
  BY DEF NotifyBlock
<1>2. BlockTypes /\ NamesAreOwn
  BY DEF WaitsInv
<1>3. gone \subseteq DOMAIN waiters
  BY DEF FirstOn
<1> HIDE DEF gone
<1>4. /\ waiters' \in Seq(WaitEntries)
      /\ \A i, j \in DOMAIN waiters' : waiters'[i].id = waiters'[j].id => i = j
      /\ \A k \in DOMAIN waiters' : \E i \in DOMAIN waiters : waiters'[k] = waiters[i]
      /\ \A w : Listed(w)' <=> \E i \in DOMAIN waiters \ gone : waiters[i].id = w
  BY <1>1, <1>2, WaitersLeft DEF BlockTypes, NamesAreOwn
<1>5. \A w : w \in names => Listed(w) /\ ~Listed(w)'
  <2> SUFFICES ASSUME NEW w, w \in names PROVE Listed(w) /\ ~Listed(w)'
    OBVIOUS
  <2>1. PICK i \in gone : i \in DOMAIN waiters /\ waiters[i].id = w
    BY <1>3
  <2>2. \A j \in DOMAIN waiters \ gone : waiters[j].id # w
    BY <1>2, <2>1 DEF NamesAreOwn
  <2> QED BY <1>4, <2>1, <2>2 DEF Listed, Places
<1>6. \A w : w \notin names => (Listed(w)' <=> Listed(w))
  BY <1>4 DEF Listed, Places
<1>7. names \subseteq Waits /\ \A w \in names : w < next
  <2>1. \A i \in DOMAIN waiters : waiters[i] \in WaitEntries
    BY <1>2 DEF BlockTypes
  <2> QED BY <1>2, <1>3, <2>1 DEF WaitEntries, NamesAreOwn
<1> HIDE DEF names
<1>8. /\ phase' \in [Agents -> Phases] /\ local' \in [Agents -> Locals]
      /\ \A b \in Agents : phase'[b] = "waiting" =>
            phase[b] = "waiting" /\ local'[b] = local[b]
      /\ \A b \in Agents : local'[b].from \in {"script", "job"}
  <2>1. Cardinality(gone) \in Nat
    <3>1. DOMAIN waiters = 1..Len(waiters) /\ Len(waiters) \in Nat
      BY <1>2 DEF BlockTypes
    <3>2. IsFiniteSet(DOMAIN waiters)
      BY <3>1, FS_Interval
    <3> QED BY <1>3, <3>2, FS_Subset, FS_CardinalityType
  <2> DEFINE l == [from |-> phase[a], slot |-> s, left |-> count - Cardinality(gone)]
  <2>2. l \in Noticing /\ l.from \in {"script", "job"}
    BY <1>1, <2>1 DEF Noticing, Running
  <2> HIDE DEF l
  <2>3. local' = [local EXCEPT ![a] = l]
    BY <1>1 DEF l
  <2>4. /\ phase' \in [Agents -> Phases] /\ phase'[a] = "notifying"
        /\ local' \in [Agents -> Locals] /\ local'[a] = l
        /\ \A b \in Agents \ {a} : phase'[b] = phase[b] /\ local'[b] = local[b]
    BY <1>1, <1>2, <2>2, <2>3 DEF BlockTypes, Phases, Locals
  <2> QED BY <1>2, <2>2, <2>4 DEF BlockTypes
<1>9. BlockTypes'
  BY <1>1, <1>2, <1>4, <1>7, <1>8 DEF BlockTypes
<1>10. NamesAreOwn'
  <2>1. \A i \in DOMAIN waiters' : waiters'[i].id < next'
    BY <1>1, <1>2, <1>4 DEF NamesAreOwn
  <2>2. \A b \in Agents : phase'[b] = "waiting" => local'[b].id < next'
    BY <1>1, <1>2, <1>8 DEF NamesAreOwn
  <2>3. \A b, c \in Agents :
          phase'[b] = "waiting" /\ phase'[c] = "waiting" /\ local'[b].id = local'[c].id
             => b = c
    BY <1>2, <1>8 DEF NamesAreOwn
  <2>4. \A w \in Waits : w >= next' => w \notin names
    BY <1>1, <1>2, <1>7, NamesAreNumbers DEF BlockTypes
  <2>5. \A w \in Waits : w >= next' => answer'[w] = "none" /\ w \notin taken'
    BY <1>1, <1>2, <2>4 DEF NamesAreOwn
  <2> QED BY <1>4, <2>1, <2>2, <2>3, <2>5 DEF NamesAreOwn
<1>11. ASSUME NEW w \in Waits, w < next' PROVE WaitStands(w)'
  <2>1. WaitStands(w)
    BY <1>1, <1>11 DEF WaitsInv
  <2> QED BY <1>1, <1>5, <1>6, <2>1 DEF WaitStands
<1>12. \A b \in Agents : phase'[b] = "waiting" => answer'[local'[b].id] = "none"
  BY <1>1, <1>8 DEF WaitsInv
<1> QED BY <1>9, <1>10, <1>11, <1>12 DEF WaitsInv

(* The steps of one agent that leave its name and the list alone.          *)
LEMMA OwnStepKeeps ==
    ASSUME WaitsInv, NEW a \in Agents, NEW p \in Phases \ {"waiting"}, NEW l \in Locals,
           l.from \in {"script", "job"}, p = "growing" => l \in Growing,
           UNCHANGED <<waiters, next, answer, taken>>,
           phase' = [phase EXCEPT ![a] = p],
           local' = [local EXCEPT ![a] = l]
    PROVE  WaitsInv'
<1>1. BlockTypes
  BY DEF WaitsInv
<1>2. /\ phase' \in [Agents -> Phases] /\ phase'[a] = p
      /\ local' \in [Agents -> Locals] /\ local'[a] = l
      /\ \A b \in Agents \ {a} : phase'[b] = phase[b] /\ local'[b] = local[b]
  BY <1>1 DEF BlockTypes
<1>3. \A b \in Agents : /\ local'[b].from \in {"script", "job"}
                        /\ phase'[b] = "growing" => local'[b] \in Growing
  BY <1>1, <1>2 DEF BlockTypes
<1>4. \A b \in Agents : phase'[b] = "waiting" => phase[b] = "waiting" /\ local'[b] = local[b]
  BY <1>2
<1> QED BY <1>2, <1>3, <1>4, ElsewhereKeeps

LEMMA QuietStepKeeps ==
    ASSUME WaitsInv, UNCHANGED <<waiters, next, answer, taken, phase, local>>
    PROVE  WaitsInv'
  BY ElsewhereKeeps DEF WaitsInv, BlockTypes

LEMMA OperateKeeps ==
    ASSUME WaitsInv, NEW a \in Agents, Operate(a)
    PROVE  WaitsInv'
<1>1. CASE \E s \in Slots, v \in SlotValues : Write(a, s, v)
  BY <1>1, QuietStepKeeps DEF Write
<1>2. CASE \E s \in Slots, v \in SlotValues : WaitElapsed(a, s, v)
  BY <1>2, WaitElapsedKeeps
<1>3. CASE \E s \in Slots, v \in SlotValues, timed \in BOOLEAN : Park(a, s, v, timed)
  BY <1>3, ParkKeeps
<1>4. CASE \E s \in Slots, v \in SlotValues, timed \in BOOLEAN : WaitAsync(a, s, v, timed)
  BY <1>4, QuietStepKeeps DEF WaitAsync, block
<1>5. CASE \E s \in Slots, count \in {0, 1, Everyone} : NotifyBlock(a, s, count)
  <2>1. {0, 1, Everyone} \subseteq Nat
    BY SharedBlockAssumption DEF Everyone
  <2> QED BY <1>5, <2>1, NotifyBlockKeeps
<1>6. CASE \E length \in 1..MaxLength + 1 : GrowBegin(a, length)
  <2>1. PICK length \in 1..MaxLength + 1 : GrowBegin(a, length)
    BY <1>6
  <2> DEFINE l == [from |-> phase[a], length |-> length]
  <2>2. l \in Growing /\ l.from \in {"script", "job"}
    BY <2>1 DEF GrowBegin, Growing, Running
  <2>3. phase' = [phase EXCEPT ![a] = "growing"] /\ local' = [local EXCEPT ![a] = l]
    BY <2>1 DEF GrowBegin
  <2> HIDE DEF l
  <2>4. UNCHANGED <<waiters, next, answer, taken>>
    BY <2>1 DEF GrowBegin, block
  <2> QED BY <2>2, <2>3, <2>4, OwnStepKeeps DEF Phases, Locals
<1>7. CASE Poll(a)
  BY <1>7, QuietStepKeeps DEF Poll, block
<1> QED BY <1>1, <1>2, <1>3, <1>4, <1>5, <1>6, <1>7 DEF Operate

LEMMA ResumeKeeps ==
    ASSUME WaitsInv, NEW a \in Agents, Resume(a), local' = [local EXCEPT ![a] = Idle],
           UNCHANGED <<waiters, next, answer, taken>>
    PROVE  WaitsInv'
<1>1. local[a].from \in Phases \ {"waiting", "growing"}
  BY DEF WaitsInv, BlockTypes, Phases
<1>2. Idle \in Locals /\ Idle.from \in {"script", "job"}
  BY DEF Locals, Idle
<1> QED BY <1>1, <1>2, OwnStepKeeps DEF Resume

(* The steps of a run that only move from one phase to another.            *)
LEMMA PhaseStepKeeps ==
    ASSUME WaitsInv, NEW a \in Agents,
           ScriptEnds(a) \/ JobEnds(a) \/ Drain(a) \/ RunAgain(a)
    PROVE  WaitsInv'
<1>1. UNCHANGED <<waiters, next, answer, taken, local>>
  BY DEF ScriptEnds, JobEnds, Drain, DrainJob, DrainOut, SleepEnds, RunAgain, block
<1>2. \E p \in Phases \ {"waiting", "growing"} : phase' = [phase EXCEPT ![a] = p]
  BY DEF ScriptEnds, JobEnds, Drain, DrainJob, DrainOut, SleepEnds, RunAgain, Phases
<1>3. /\ local[a] \in Locals /\ local[a].from \in {"script", "job"}
      /\ local = [local EXCEPT ![a] = local[a]]
  BY DEF WaitsInv, BlockTypes
<1> QED BY <1>1, <1>2, <1>3, OwnStepKeeps, ZenonT(60)

LEMMA NextWaits == WaitsInv /\ [BlockNext]_blockVars => WaitsInv'
<1> SUFFICES ASSUME WaitsInv, [BlockNext]_blockVars PROVE WaitsInv'
  OBVIOUS
<1>1. ASSUME NEW a \in Agents, Operate(a) PROVE WaitsInv'
  BY <1>1, OperateKeeps
<1>2. ASSUME NEW a \in Agents, GrowEnd(a) PROVE WaitsInv'
  BY <1>2, ResumeKeeps DEF GrowEnd
<1>3. ASSUME NEW a \in Agents, NotifyOwn(a) PROVE WaitsInv'
  BY <1>3, ResumeKeeps DEF NotifyOwn, block
<1>4. ASSUME NEW a \in Agents, WakeOnTime(a) \/ WakeSpuriously(a) PROVE WaitsInv'
  BY <1>4, QuietStepKeeps DEF WakeOnTime, WakeSpuriously, Wake
<1>5. ASSUME NEW a \in Agents, Recheck(a) PROVE WaitsInv'
  BY <1>5, RecheckKeeps
<1>6. ASSUME NEW a \in Agents,
             ScriptEnds(a) \/ JobEnds(a) \/ Drain(a) \/ RunAgain(a)
      PROVE  WaitsInv'
  BY <1>6, PhaseStepKeeps
<1>7. ASSUME NEW d \in Deadlines, Elapse(d) PROVE WaitsInv'
  BY <1>7, QuietStepKeeps DEF Elapse, block
<1>8. CASE UNCHANGED blockVars
  BY <1>8, QuietStepKeeps DEF blockVars, block
<1> QED BY <1>1, <1>2, <1>3, <1>4, <1>5, <1>6, <1>7, <1>8 DEF BlockNext, Continue

LEMMA WaitsHold == BlockSpec => []WaitsInv
  BY InitWaits, NextWaits, PTL DEF BlockSpec

(* A wait a notify counted answers "ok" however late its thread gets the   *)
(* lock again; any other is on the list, once, or out of time (Block::wait,*)
(* Block::notify).                                                         *)
THEOREM CountedAnswered == BlockSpec => []CountedIsAnswered
<1>1. ASSUME WaitsInv PROVE CountedIsAnswered
  <2>1. BlockTypes /\ NamesAreOwn
    BY <1>1 DEF WaitsInv
  <2>2. \A w \in 1..next - 1 : w \in Waits /\ w < next
    BY <2>1, SharedBlockAssumption DEF BlockTypes, Waits
  <2>3. ASSUME NEW w, Listed(w) PROVE Cardinality(Places(w)) = 1
    <3>1. PICK i \in DOMAIN waiters : waiters[i].id = w
      BY <2>3 DEF Listed, Places
    <3>2. Places(w) = {i}
      BY <2>1, <3>1 DEF Places, NamesAreOwn
    <3> QED BY <3>2, FS_Singleton
  <2>4. \A w \in 1..next - 1 : WaitStands(w)
    BY <1>1, <2>2 DEF WaitsInv
  <2>5. \A a \in Agents : phase[a] = "waiting" => answer[local[a].id] = "none"
    BY <1>1 DEF WaitsInv
  <2> QED BY <2>3, <2>4, <2>5 DEF CountedIsAnswered, WaitStands
<1> QED BY <1>1, WaitsHold, PTL

-----------------------------------------------------------------------------
(* Of two waits on one slot a notify that takes the later takes the earlier*)
(* too.                                                                    *)
LEMMA EarlierCounts ==
    ASSUME NEW S, NEW list \in Seq(S), NEW s, NEW count \in Nat,
           NEW i \in DOMAIN list, NEW j \in FirstOn(list, s, count),
           i < j, list[i].slot = s
    PROVE  i \in FirstOn(list, s, count)
<1> DEFINE before(k) == {m \in 1..k - 1 : list[m].slot = s}
<1>1. j \in DOMAIN list /\ i \in Nat /\ j \in Nat
  BY DEF FirstOn
<1>2. IsFiniteSet(before(j))
  <2>1. IsFiniteSet(1..j - 1)
    BY <1>1, FS_Interval
  <2>2. before(j) \subseteq 1..j - 1
    OBVIOUS
  <2> QED BY <2>1, <2>2, FS_Subset
<1>3. before(i) \subseteq before(j)
  BY <1>1
<1>4. Cardinality(before(j)) < count
  BY DEF FirstOn
<1>5. /\ Cardinality(before(i)) <= Cardinality(before(j))
      /\ IsFiniteSet(before(i))
  BY <1>2, <1>3, FS_Subset
<1>6. Cardinality(before(i)) \in Nat /\ Cardinality(before(j)) \in Nat
  BY <1>2, <1>5, FS_CardinalityType
<1>7. Cardinality(before(i)) < count
  BY <1>4, <1>5, <1>6
<1> QED BY <1>7 DEF FirstOn

LEMMA NotifyIsFair ==
    ASSUME WaitsInv, NEW a \in Agents, NEW s \in Slots, NEW count \in Nat,
           NotifyBlock(a, s, count)
    PROVE  ~Overtakes(waiters, waiters')
<1> DEFINE gone == FirstOn(waiters, s, count)
<1> SUFFICES ASSUME NEW i \in DOMAIN waiters, NEW j \in DOMAIN waiters,
                    i < j, waiters[i].slot = waiters[j].slot,
                    waiters[i] \in ToSet(waiters'), waiters[j] \notin ToSet(waiters')
             PROVE  FALSE
  BY DEF Overtakes
<1>1. BlockTypes /\ NamesAreOwn /\ waiters' \in Without(waiters, gone)
  BY DEF WaitsInv, NotifyBlock
<1>2. /\ \A k \in DOMAIN waiters' :
            \E m \in DOMAIN waiters \ gone : waiters'[k] = waiters[m]
      /\ \A m \in DOMAIN waiters \ gone :
            \E k \in DOMAIN waiters' : waiters'[k] = waiters[m]
  BY <1>1, Remaining DEF BlockTypes
<1>3. j \in gone
  BY <1>2 DEF ToSet
<1>4. waiters[j].slot = s
  BY <1>3 DEF FirstOn
<1>5. i \in gone
  BY <1>1, <1>3, <1>4, EarlierCounts DEF BlockTypes
<1>6. PICK m \in DOMAIN waiters \ gone : waiters[m] = waiters[i]
  BY <1>2 DEF ToSet
<1>7. m = i
  BY <1>1, <1>6 DEF NamesAreOwn
<1> QED BY <1>5, <1>6, <1>7

(* Only a notify moves an agent to the notifying phase.                    *)
LEMMA NotifyingBegins ==
    ASSUME WaitsInv, [BlockNext]_blockVars, NEW a \in Agents,
           phase[a] # "notifying", phase'[a] = "notifying"
    PROVE  \E b \in Agents, s \in Slots, count \in Nat : NotifyBlock(b, s, count)
<1>1. /\ phase \in [Agents -> Phases]
      /\ \A b \in Agents : local[b].from \in {"script", "job"}
  BY DEF WaitsInv, BlockTypes
<1>2. ASSUME NEW b \in Agents, NEW p, phase' = [phase EXCEPT ![b] = p], p # "notifying"
      PROVE  FALSE
  BY <1>1, <1>2
<1>3. ASSUME NEW b \in Agents, Operate(b)
      PROVE  \E s \in Slots, count \in Nat : NotifyBlock(b, s, count)
  <2>1. {0, 1, Everyone} \subseteq Nat
    BY SharedBlockAssumption DEF Everyone
  <2>2. \A s \in Slots, v \in SlotValues, timed \in BOOLEAN :
          ~Write(b, s, v) /\ ~WaitElapsed(b, s, v) /\ ~WaitAsync(b, s, v, timed)
    BY DEF Write, WaitElapsed, WaitAsync
  <2>3. \A s \in Slots, v \in SlotValues, timed \in BOOLEAN : ~Park(b, s, v, timed)
    BY <1>2 DEF Park, Join
  <2>4. \A length \in 1..MaxLength + 1 : ~GrowBegin(b, length)
    BY <1>2 DEF GrowBegin
  <2>5. ~Poll(b)
    BY DEF Poll
  <2> QED BY <1>3, <2>1, <2>2, <2>3, <2>4, <2>5 DEF Operate
<1>4. ASSUME NEW b \in Agents PROVE ~Continue(b)
  <2>1. ~GrowEnd(b) /\ ~NotifyOwn(b)
    BY <1>1, <1>2 DEF GrowEnd, NotifyOwn, Resume
  <2>2. ~WakeOnTime(b)
    BY DEF WakeOnTime, Wake
  <2>3. ~Recheck(b)
    BY <1>1, <1>2 DEF Recheck, End, Resume
  <2> QED BY <2>1, <2>2, <2>3 DEF Continue
<1>5. ASSUME NEW b \in Agents
      PROVE  ~WakeSpuriously(b) /\ ~ScriptEnds(b) /\ ~JobEnds(b) /\ ~Drain(b) /\ ~RunAgain(b)
  <2>1. ~WakeSpuriously(b)
    BY DEF WakeSpuriously, Wake
  <2>2. ~ScriptEnds(b) /\ ~JobEnds(b) /\ ~RunAgain(b)
    BY <1>2 DEF ScriptEnds, JobEnds, RunAgain
  <2>3. ~Drain(b)
    BY <1>2 DEF Drain, DrainJob, DrainOut, SleepEnds
  <2> QED BY <2>1, <2>2, <2>3
<1>6. \A d \in Deadlines : ~Elapse(d)
  BY DEF Elapse
<1>7. ~UNCHANGED blockVars
  BY DEF blockVars
<1> QED BY <1>3, <1>4, <1>5, <1>6, <1>7 DEF BlockNext

(* A notify with a count takes the oldest first, on the block              *)
(* (Block::notify).                                                        *)
THEOREM TakesOldest == BlockSpec => OldestFirst
<1>1. ASSUME WaitsInv, [BlockNext]_blockVars
      PROVE  [(\E a \in Agents : phase[a] # "notifying" /\ phase'[a] = "notifying")
                 => ~Overtakes(waiters, waiters')]_blockVars
  BY <1>1, NotifyingBegins, NotifyIsFair
<1> QED BY <1>1, WaitsHold, PTL DEF BlockSpec, OldestFirst

-----------------------------------------------------------------------------
(* Promises of waitAsync: each that is pending is on one list, once, and   *)
(* every one that is on a list is pending.                                 *)
PromiseTypes ==
    /\ parked \in [Agents -> Seq(Parkings)]
    /\ promises \in 0..MaxPromises
    /\ settled \in [Promises -> {"none", "pending", "ok", "timed-out"}]

IsParked(p) == \E a \in Agents : \E i \in DOMAIN parked[a] : parked[a][i].promise = p

ParkedOnce ==
    /\ \A a \in Agents : \A i \in DOMAIN parked[a] :
          parked[a][i].promise <= promises
    /\ \A a, b \in Agents : \A i \in DOMAIN parked[a], j \in DOMAIN parked[b] :
          parked[a][i].promise = parked[b][j].promise => a = b /\ i = j

PromisesInv ==
    /\ PromiseTypes /\ ParkedOnce
    /\ \A p \in Promises : settled[p] = "pending" <=> IsParked(p)
    /\ \A p \in Promises : p > promises => settled[p] = "none"

LEMMA InitPromises == BlockInit => PromisesInv
<1> SUFFICES ASSUME BlockInit PROVE PromisesInv
  OBVIOUS
<1>1. /\ parked = [a \in Agents |-> <<>>] /\ promises = 0
      /\ settled = [p \in Promises |-> "none"]
  BY DEF BlockInit
<1>2. PromiseTypes
  BY <1>1, SharedBlockAssumption DEF PromiseTypes
<1>3. \A a \in Agents : \A i \in DOMAIN parked[a] : FALSE
  BY <1>1
<1> QED BY <1>1, <1>2, <1>3 DEF PromisesInv, ParkedOnce, IsParked

(* A step that neither makes nor settles a promise.                        *)
LEMMA NoPromiseKeeps ==
    ASSUME PromisesInv, UNCHANGED <<parked, promises, settled>>
    PROVE  PromisesInv'
<1>1. /\ parked' = parked /\ promises' = promises /\ settled' = settled
  OBVIOUS
<1> QED BY <1>1 DEF PromisesInv, PromiseTypes, ParkedOnce, IsParked

LEMMA WaitAsyncKeeps ==
    ASSUME PromisesInv, NEW a \in Agents, NEW s \in Slots, NEW v \in SlotValues,
           NEW timed \in BOOLEAN, WaitAsync(a, s, v, timed)
    PROVE  PromisesInv'
<1> DEFINE n == promises + 1
           w == [promise |-> n, slot |-> s, timed |-> timed]
<1>1. /\ promises < MaxPromises /\ promises' = n
      /\ settled' = [settled EXCEPT ![n] = "pending"]
      /\ parked' = [parked EXCEPT ![a] = Append(parked[a], w)]
  BY DEF WaitAsync
<1>2. PromiseTypes /\ ParkedOnce
  BY DEF PromisesInv
<1>3. /\ n \in Promises /\ promises \in Nat
      /\ promises' \in 0..MaxPromises
      /\ \A p \in Promises : p > promises' => p > promises /\ p # n
      /\ \A p \in Promises : p <= promises => p # n /\ p <= promises'
      /\ n <= promises' /\ n > promises
  BY <1>1, <1>2, SharedBlockAssumption DEF PromiseTypes, Promises
<1>4. w \in Parkings /\ w.promise = n
  BY <1>3 DEF Parkings
<1> HIDE DEF w, n
<1>5. /\ settled' \in [Promises -> {"none", "pending", "ok", "timed-out"}]
      /\ settled'[n] = "pending"
      /\ \A p \in Promises \ {n} : settled'[p] = settled[p]
  BY <1>1, <1>2, <1>3 DEF PromiseTypes
<1>6. /\ parked[a] \in Seq(Parkings)
      /\ parked' \in [Agents -> Seq(Parkings)] /\ parked'[a] = Append(parked[a], w)
      /\ \A b \in Agents \ {a} : parked'[b] = parked[b]
  BY <1>1, <1>2, <1>4 DEF PromiseTypes
<1> DEFINE last == Len(parked[a]) + 1
<1>7. /\ last \in DOMAIN parked'[a] /\ parked'[a][last] = w
      /\ \A i \in DOMAIN parked[a] : i \in DOMAIN parked'[a] /\ parked'[a][i] = parked[a][i]
      /\ \A i \in DOMAIN parked'[a] : i \in DOMAIN parked[a] \/ i = last
  BY <1>4, <1>6
<1> HIDE DEF last
<1>8. \A b \in Agents : \A i \in DOMAIN parked'[b] :
        \/ /\ i \in DOMAIN parked[b] /\ parked'[b][i] = parked[b][i]
           /\ parked[b][i].promise \in Promises /\ parked[b][i].promise <= promises
        \/ b = a /\ i = last /\ parked'[b][i] = w
  <2> SUFFICES ASSUME NEW b \in Agents, NEW i \in DOMAIN parked'[b]
               PROVE \/ /\ i \in DOMAIN parked[b] /\ parked'[b][i] = parked[b][i]
                        /\ parked[b][i].promise \in Promises
                        /\ parked[b][i].promise <= promises
                     \/ b = a /\ i = last /\ parked'[b][i] = w
    OBVIOUS
  <2>1. \/ i \in DOMAIN parked[b] /\ parked'[b][i] = parked[b][i]
        \/ b = a /\ i = last /\ parked'[b][i] = w
    BY <1>6, <1>7
  <2>2. i \in DOMAIN parked[b] => parked[b][i] \in Parkings
    BY <1>2 DEF PromiseTypes
  <2> QED BY <1>2, <2>1, <2>2 DEF ParkedOnce, Parkings
<1>9. ParkedOnce'
  <2>1. \A b \in Agents : \A i \in DOMAIN parked'[b] : parked'[b][i].promise <= promises'
    BY <1>3, <1>4, <1>8
  <2>2. ASSUME NEW b \in Agents, NEW c \in Agents,
               NEW i \in DOMAIN parked'[b], NEW j \in DOMAIN parked'[c],
               parked'[b][i].promise = parked'[c][j].promise
        PROVE  b = c /\ i = j
    BY <1>2, <1>3, <1>4, <1>8, <2>2 DEF ParkedOnce
  <2> QED BY <2>1, <2>2 DEF ParkedOnce
<1>10. \A p \in Promises : IsParked(p)' <=> IsParked(p) \/ p = n
  <2>1. \A p \in Promises : IsParked(p)' => IsParked(p) \/ p = n
    BY <1>4, <1>8 DEF IsParked
  <2>2. \A p \in Promises : p = n => IsParked(p)'
    BY <1>4, <1>7 DEF IsParked
  <2>3. \A p \in Promises : IsParked(p) => IsParked(p)'
    <3> SUFFICES ASSUME NEW b \in Agents, NEW i \in DOMAIN parked[b]
                 PROVE  i \in DOMAIN parked'[b] /\ parked'[b][i] = parked[b][i]
      BY DEF IsParked
    <3> QED BY <1>6, <1>7
  <2> QED BY <2>1, <2>2, <2>3
<1>11. \A p \in Promises : settled'[p] = "pending" <=> IsParked(p)'
  BY <1>5, <1>10 DEF PromisesInv
<1>12. \A p \in Promises : p > promises' => settled'[p] = "none"
  BY <1>3, <1>5 DEF PromisesInv
<1>13. PromiseTypes'
  BY <1>3, <1>5, <1>6 DEF PromiseTypes
<1> QED BY <1>9, <1>11, <1>12, <1>13 DEF PromisesInv

(* Taking a set of waits off an agent's list and settling them.            *)
LEMMA SettlingKeeps ==
    ASSUME PromisesInv, NEW a \in Agents, NEW gone, gone \subseteq DOMAIN parked[a],
           NEW how \in {"ok", "timed-out"}, TakeOff(a, gone), Settle(a, gone, how),
           promises' = promises
    PROVE  /\ PromisesInv'
           /\ \A p \in Promises : settled[p] # "pending" => settled'[p] = settled[p]
<1>1. PromiseTypes /\ ParkedOnce
  BY DEF PromisesInv
<1>2. PICK left \in Without(parked[a], gone) : parked' = [parked EXCEPT ![a] = left]
  BY DEF TakeOff
<1>3. parked[a] \in Seq(Parkings)
  BY <1>1 DEF PromiseTypes
<1>4. /\ left \in Seq(Parkings)
      /\ \A k \in DOMAIN left :
            \E i \in DOMAIN parked[a] \ gone : left[k] = parked[a][i]
      /\ \A i \in DOMAIN parked[a] \ gone :
            \E k \in DOMAIN left : left[k] = parked[a][i]
      /\ \A k, m \in DOMAIN left : k # m =>
            \E i, j \in DOMAIN parked[a] \ gone :
               i # j /\ left[k] = parked[a][i] /\ left[m] = parked[a][j]
  BY <1>3, Remaining
<1>5. /\ parked' \in [Agents -> Seq(Parkings)] /\ parked'[a] = left
      /\ \A b \in Agents \ {a} : parked'[b] = parked[b]
  BY <1>1, <1>2, <1>4 DEF PromiseTypes
<1> DEFINE names == {parked[a][i].promise : i \in gone}
<1>6. settled' = [p \in Promises |-> IF p \in names THEN how ELSE settled[p]]
  BY DEF Settle
<1>7. \A p \in names : IsParked(p)
  BY DEF IsParked
<1>8. /\ \A b \in Agents : \A k \in DOMAIN parked'[b] :
            \E i \in DOMAIN parked[b] :
               parked'[b][k] = parked[b][i] /\ (b = a => i \notin gone)
      /\ \A b \in Agents : \A i \in DOMAIN parked[b] : (b = a => i \notin gone) =>
            \E k \in DOMAIN parked'[b] : parked'[b][k] = parked[b][i]
  BY <1>4, <1>5, SMTT(30)
<1>9. ParkedOnce'
  <2>1. \A b \in Agents : \A k \in DOMAIN parked'[b] :
           parked'[b][k].promise <= promises'
    BY <1>1, <1>8 DEF ParkedOnce
  <2>2. ASSUME NEW b \in Agents, NEW c \in Agents,
               NEW k \in DOMAIN parked'[b], NEW m \in DOMAIN parked'[c],
               parked'[b][k].promise = parked'[c][m].promise
        PROVE  b = c /\ k = m
    <3>1. b = c
      BY <1>1, <1>8, <2>2 DEF ParkedOnce
    <3>2. CASE b # a
      BY <1>1, <1>5, <2>2, <3>1, <3>2 DEF ParkedOnce
    <3>3. CASE b = a
      <4> SUFFICES ASSUME k # m PROVE FALSE
        BY <3>1
      <4>1. PICK i, j \in DOMAIN parked[a] \ gone :
               i # j /\ left[k] = parked[a][i] /\ left[m] = parked[a][j]
        BY <1>4, <1>5, <3>1, <3>3
      <4> QED BY <1>1, <1>5, <2>2, <3>1, <3>3, <4>1 DEF ParkedOnce
    <3> QED BY <3>2, <3>3
  <2> QED BY <2>1, <2>2 DEF ParkedOnce
<1>10. \A p \in Promises : IsParked(p)' <=> IsParked(p) /\ p \notin names
  <2>1. \A p \in Promises : IsParked(p)' => IsParked(p)
    BY <1>8 DEF IsParked
  <2>2. \A p \in Promises : IsParked(p) /\ p \notin names => IsParked(p)'
    <3> SUFFICES ASSUME NEW b \in Agents, NEW i \in DOMAIN parked[b],
                        parked[b][i].promise \notin names
                 PROVE  \E k \in DOMAIN parked'[b] : parked'[b][k] = parked[b][i]
      BY DEF IsParked
    <3> QED BY <1>8
  <2>3. \A p \in Promises : p \in names => ~IsParked(p)'
    <3> SUFFICES ASSUME NEW i \in gone, NEW b \in Agents, NEW k \in DOMAIN parked'[b],
                        parked'[b][k].promise = parked[a][i].promise
                 PROVE  FALSE
      BY DEF IsParked
    <3>1. PICK j \in DOMAIN parked[b] :
             parked'[b][k] = parked[b][j] /\ (b = a => j \notin gone)
      BY <1>8
    <3>2. b = a /\ j = i
      BY <1>1, <3>1 DEF ParkedOnce
    <3> QED BY <3>1, <3>2
  <2> QED BY <2>1, <2>2, <2>3
<1>11. \A p \in Promises : p \in names => settled[p] = "pending"
  BY <1>7 DEF PromisesInv
<1> HIDE DEF names
<1>12. PromiseTypes'
  <2>1. settled' \in [Promises -> {"none", "pending", "ok", "timed-out"}]
    BY <1>1, <1>6 DEF PromiseTypes
  <2> QED BY <1>1, <1>5, <2>1 DEF PromiseTypes
<1>13. \A p \in Promises : settled'[p] = "pending" <=> IsParked(p)'
  BY <1>6, <1>10 DEF PromisesInv
<1>14. \A p \in Promises : p > promises' => settled'[p] = "none"
  BY <1>6, <1>11 DEF PromisesInv
<1>15. \A p \in Promises : settled[p] # "pending" => settled'[p] = settled[p]
  BY <1>6, <1>11
<1> QED BY <1>9, <1>12, <1>13, <1>14, <1>15 DEF PromisesInv

(* Every step either leaves the promises alone, makes one, or takes some   *)
(* off a list to settle them.                                              *)
LEMMA PromiseSteps ==
    ASSUME [BlockNext]_blockVars
    PROVE  \/ UNCHANGED <<parked, promises, settled>>
           \/ \E a \in Agents, s \in Slots, v \in SlotValues, timed \in BOOLEAN :
                 WaitAsync(a, s, v, timed)
           \/ \E a \in Agents, how \in {"ok", "timed-out"} : \E gone \in SUBSET DOMAIN parked[a] :
                 TakeOff(a, gone) /\ Settle(a, gone, how) /\ promises' = promises
<1> USE DEF block
<1>1. ASSUME NEW a \in Agents, Operate(a)
      PROVE  \/ UNCHANGED <<parked, promises, settled>>
             \/ \E s \in Slots, v \in SlotValues, timed \in BOOLEAN : WaitAsync(a, s, v, timed)
  <2>1. \A s \in Slots, v \in SlotValues, timed \in BOOLEAN :
          Write(a, s, v) \/ WaitElapsed(a, s, v) \/ Park(a, s, v, timed)
             => UNCHANGED <<parked, promises, settled>>
    BY DEF Write, WaitElapsed, Park, Join
  <2>2. \A s \in Slots, count \in {0, 1, Everyone} :
          NotifyBlock(a, s, count) => UNCHANGED <<parked, promises, settled>>
    BY DEF NotifyBlock
  <2>3. \A length \in 1..MaxLength + 1 :
          GrowBegin(a, length) => UNCHANGED <<parked, promises, settled>>
    BY DEF GrowBegin
  <2>4. Poll(a) => UNCHANGED <<parked, promises, settled>>
    BY DEF Poll
  <2> QED BY <1>1, <2>1, <2>2, <2>3, <2>4 DEF Operate
<1>2. ASSUME NEW a \in Agents, NotifyOwn(a)
      PROVE  \E gone \in SUBSET DOMAIN parked[a] :
                TakeOff(a, gone) /\ Settle(a, gone, "ok") /\ promises' = promises
  <2>1. FirstOn(parked[a], local[a].slot, local[a].left) \in SUBSET DOMAIN parked[a]
    BY DEF FirstOn
  <2> QED BY <1>2, <2>1 DEF NotifyOwn
<1>3. ASSUME NEW a \in Agents, JobEnds(a) \/ SleepEnds(a)
      PROVE  \E gone \in SUBSET DOMAIN parked[a] :
                TakeOff(a, gone) /\ Settle(a, gone, "timed-out") /\ promises' = promises
  <2>1. Expired(a) \in SUBSET DOMAIN parked[a]
    BY DEF Expired
  <2> QED BY <1>3, <2>1 DEF JobEnds, SleepEnds, ExpireWaiters
<1>4. ASSUME NEW a \in Agents,
             \/ GrowEnd(a) \/ WakeOnTime(a) \/ WakeSpuriously(a) \/ Recheck(a)
             \/ ScriptEnds(a) \/ DrainJob(a) \/ DrainOut(a) \/ RunAgain(a)
      PROVE  UNCHANGED <<parked, promises, settled>>
  BY <1>4 DEF GrowEnd, WakeOnTime, WakeSpuriously, Wake, Recheck, ScriptEnds, DrainJob,
              DrainOut, RunAgain
<1>5. ASSUME NEW d \in Deadlines, Elapse(d) PROVE UNCHANGED <<parked, promises, settled>>
  BY <1>5 DEF Elapse
<1>6. UNCHANGED blockVars => UNCHANGED <<parked, promises, settled>>
  BY DEF blockVars
<1> QED BY <1>1, <1>2, <1>3, <1>4, <1>5, <1>6 DEF BlockNext, Continue, Drain

LEMMA PromiseStepKeeps ==
    ASSUME PromisesInv, [BlockNext]_blockVars
    PROVE  /\ PromisesInv'
           /\ \A p \in Promises : settled[p] \in {"ok", "timed-out"} => settled'[p] = settled[p]
<1>1. CASE UNCHANGED <<parked, promises, settled>>
  BY <1>1, NoPromiseKeeps
<1>2. CASE \E a \in Agents, s \in Slots, v \in SlotValues, timed \in BOOLEAN :
              WaitAsync(a, s, v, timed)
  <2>1. PICK a \in Agents, s \in Slots, v \in SlotValues, timed \in BOOLEAN :
           WaitAsync(a, s, v, timed)
    BY <1>2
  <2>2. /\ settled' = [settled EXCEPT ![promises + 1] = "pending"]
        /\ promises \in 0..MaxPromises /\ promises < MaxPromises
        /\ settled \in [Promises -> {"none", "pending", "ok", "timed-out"}]
    BY <2>1 DEF WaitAsync, PromisesInv, PromiseTypes
  <2>3. promises + 1 \in Promises /\ promises + 1 > promises
    BY <2>2, SharedBlockAssumption DEF Promises
  <2>4. settled[promises + 1] = "none"
    BY <2>3 DEF PromisesInv
  <2> QED BY <2>1, <2>2, <2>3, <2>4, WaitAsyncKeeps
<1>3. CASE \E a \in Agents, how \in {"ok", "timed-out"} : \E gone \in SUBSET DOMAIN parked[a] :
              TakeOff(a, gone) /\ Settle(a, gone, how) /\ promises' = promises
  BY <1>3, SettlingKeeps
<1> QED BY <1>1, <1>2, <1>3, PromiseSteps

LEMMA PromisesHold == BlockSpec => []PromisesInv
<1>1. PromisesInv /\ [BlockNext]_blockVars => PromisesInv'
  BY PromiseStepKeeps
<1> QED BY <1>1, InitPromises, PTL DEF BlockSpec

(* Only a wait that is given its name and ended at once, and a thread that *)
(* has the lock again, answer a wait: neither has an answer yet.           *)
LEMMA AnswersStay ==
    ASSUME WaitsInv, [BlockNext]_blockVars, NEW w \in Waits, answer[w] # "none"
    PROVE  answer'[w] = answer[w]
<1> USE DEF block
<1>1. /\ answer \in [Waits -> {"none", "ok", "timed-out"}] /\ next \in Nat
      /\ \A x \in Waits : x >= next => answer[x] = "none"
      /\ \A a \in Agents : phase[a] = "waiting" => answer[local[a].id] = "none"
  BY DEF WaitsInv, BlockTypes, NamesAreOwn
<1>2. w # next
  BY <1>1, NamesAreNumbers
<1>3. ASSUME NEW a \in Agents, Operate(a) PROVE answer'[w] = answer[w]
  <2>1. \A s \in Slots, v \in SlotValues, timed \in BOOLEAN :
          Write(a, s, v) \/ Park(a, s, v, timed) \/ WaitAsync(a, s, v, timed)
             => answer' = answer
    BY DEF Write, Park, Join, WaitAsync
  <2>2. \A s \in Slots, v \in SlotValues : WaitElapsed(a, s, v) => answer'[w] = answer[w]
    BY <1>1, <1>2 DEF WaitElapsed
  <2>3. \A s \in Slots, count \in {0, 1, Everyone} :
          NotifyBlock(a, s, count) => answer' = answer
    BY DEF NotifyBlock
  <2>4. \A length \in 1..MaxLength + 1 : GrowBegin(a, length) => answer' = answer
    BY DEF GrowBegin
  <2>5. Poll(a) => answer' = answer
    BY DEF Poll
  <2> QED BY <1>3, <2>1, <2>2, <2>3, <2>4, <2>5 DEF Operate
<1>4. ASSUME NEW a \in Agents, Recheck(a) PROVE answer'[w] = answer[w]
  BY <1>1, <1>4 DEF Recheck, End
<1>5. ASSUME NEW a \in Agents,
             \/ GrowEnd(a) \/ NotifyOwn(a) \/ WakeOnTime(a) \/ WakeSpuriously(a)
             \/ ScriptEnds(a) \/ JobEnds(a) \/ RunAgain(a)
             \/ DrainJob(a) \/ DrainOut(a) \/ SleepEnds(a)
      PROVE  answer' = answer
  BY <1>5 DEF GrowEnd, NotifyOwn, WakeOnTime, WakeSpuriously, Wake, ScriptEnds, JobEnds,
              RunAgain, DrainJob, DrainOut, SleepEnds
<1>6. ASSUME NEW d \in Deadlines, Elapse(d) PROVE answer' = answer
  BY <1>6 DEF Elapse
<1>7. UNCHANGED blockVars => answer' = answer
  BY DEF blockVars
<1> QED BY <1>3, <1>4, <1>5, <1>6, <1>7 DEF BlockNext, Continue, Drain

(* An answer is final, of a wait as of a promise, and a promise that has   *)
(* none is on its agent's list (Block::wait, Vm::take_waiters,             *)
(* Vm::expire_waiters).                                                    *)
THEOREM AnswersAreFinal == BlockSpec => AnsweredOnce
<1>1. ASSUME WaitsInv, PromisesInv, PromisesInv', [BlockNext]_blockVars
      PROVE  /\ \A w \in Waits : answer[w] # "none" => answer'[w] = answer[w]
             /\ \A p \in Promises : settled[p] \in {"ok", "timed-out"} =>
                                        settled'[p] = settled[p]
             /\ \A p \in Promises : settled[p] = "pending" =>
                   \/ settled'[p] # "pending"
                   \/ \E a \in Agents : \E w \in ToSet(parked'[a]) : w.promise = p
  <2>1. \A w \in Waits : answer[w] # "none" => answer'[w] = answer[w]
    BY <1>1, AnswersStay
  <2>2. \A p \in Promises : settled[p] \in {"ok", "timed-out"} => settled'[p] = settled[p]
    BY <1>1, PromiseStepKeeps
  <2>3. \A p \in Promises : settled'[p] = "pending" =>
           \E a \in Agents : \E w \in ToSet(parked'[a]) : w.promise = p
    <3>1. \A p \in Promises : settled'[p] = "pending" => IsParked(p)'
      BY <1>1 DEF PromisesInv
    <3>2. \A p \in Promises : IsParked(p)' =>
             \E a \in Agents : \E w \in ToSet(parked'[a]) : w.promise = p
      BY DEF IsParked, ToSet
    <3> QED BY <3>1, <3>2
  <2> QED BY <2>1, <2>2, <2>3
<1>2. (PromisesInv /\ PromisesInv' /\ WaitsInv /\ [BlockNext]_blockVars) =>
         [/\ \A w \in Waits : answer[w] # "none" => answer'[w] = answer[w]
          /\ \A p \in Promises : settled[p] \in {"ok", "timed-out"} =>
                                     settled'[p] = settled[p]
          /\ \A p \in Promises : settled[p] = "pending" =>
                \/ settled'[p] # "pending"
                \/ \E a \in Agents : \E w \in ToSet(parked'[a]) : w.promise = p]_blockVars
  BY <1>1
<1> QED BY <1>2, WaitsHold, PromisesHold, PTL DEF BlockSpec, AnsweredOnce

-----------------------------------------------------------------------------
(* While nothing makes the block shorter.  A wait is on the list of a slot *)
(* the block has, and whoever changed the slot owes it a notify.           *)
WakeInv ==
    /\ bytes \in Seq(SlotValues) /\ owes \in [Agents -> SUBSET Slots]
    /\ \A i \in DOMAIN waiters : waiters[i].slot \in DOMAIN bytes
    /\ NoLostWakeup

(* There are never more waits on the list than names, so a notify with no  *)
(* count takes every wait of its slot.                                     *)
LEMMA EveryoneIsTaken ==
    ASSUME WaitsInv, NEW s, NEW i \in DOMAIN waiters, waiters[i].slot = s
    PROVE  i \in FirstOn(waiters, s, Everyone)
<1> DEFINE before == {j \in 1..i - 1 : waiters[j].slot = s}
           others == Waits \ {waiters[i].id}
           name == [j \in before |-> waiters[j].id]
<1>1. /\ waiters \in Seq(WaitEntries) /\ i \in Nat
      /\ \A j, k \in DOMAIN waiters : waiters[j].id = waiters[k].id => j = k
  BY DEF WaitsInv, BlockTypes, NamesAreOwn
<1>2. \A j \in DOMAIN waiters : waiters[j].id \in Waits
  <2>1. \A j \in DOMAIN waiters : waiters[j] \in WaitEntries
    BY <1>1
  <2> QED BY <2>1 DEF WaitEntries
<1>3. before \subseteq DOMAIN waiters /\ i \notin before
  BY <1>1
<1>4. \A j \in before : waiters[j].id \in others
  BY <1>1, <1>2, <1>3
<1>5. name \in Injection(before, others)
  <2>1. name \in [before -> others]
    BY <1>4
  <2>2. \A j, k \in before : name[j] = name[k] => j = k
    BY <1>1, <1>3
  <2> QED BY <2>1, <2>2 DEF Injection, IsInjective
<1>6. /\ IsFiniteSet(others) /\ Cardinality(others) = MaxWaits - 1 /\ MaxWaits \in Nat
  <2>1. MaxWaits \in Nat /\ MaxPromises \in Nat
    BY SharedBlockAssumption
  <2>2. IsFiniteSet(Waits) /\ Cardinality(Waits) = MaxWaits
    BY <2>1, FS_Interval DEF Waits
  <2>3. waiters[i].id \in Waits
    BY <1>2
  <2> QED BY <2>1, <2>2, <2>3, FS_RemoveElement
<1> HIDE DEF others, name
<1>7. IsFiniteSet(before) /\ Cardinality(before) <= MaxWaits - 1
  BY <1>5, <1>6, FS_Injection
<1>8. Cardinality(before) \in Nat
  BY <1>7, FS_CardinalityType
<1>9. Cardinality(before) < Everyone
  BY <1>6, <1>7, <1>8, SharedBlockAssumption DEF Everyone
<1> QED BY <1>9 DEF FirstOn

LEMMA InitWakes == BlockInit => WakeInv
<1> SUFFICES ASSUME BlockInit PROVE WakeInv
  OBVIOUS
<1>1. bytes = [s \in 1..InitialLength |-> Zero] /\ waiters = <<>>
      /\ owes = [a \in Agents |-> {}]
  BY DEF BlockInit
<1>2. bytes \in Seq(SlotValues) /\ owes \in [Agents -> SUBSET Slots]
  BY <1>1, SharedBlockAssumption
<1>3. \A i \in DOMAIN waiters : FALSE
  BY <1>1
<1> QED BY <1>2, <1>3 DEF WakeInv, NoLostWakeup

(* The list loses entries or none, no slot a wait is on changes, and no    *)
(* debt to such a slot is forgiven.                                        *)
LEMMA NoDebtForgiven ==
    ASSUME WakeInv, bytes' \in Seq(SlotValues), owes' \in [Agents -> SUBSET Slots],
           \A k \in DOMAIN waiters' : \E i \in DOMAIN waiters :
              /\ waiters'[k] = waiters[i] /\ waiters[i].slot \in DOMAIN bytes'
              /\ \/ bytes'[waiters[i].slot] = bytes[waiters[i].slot]
                 \/ \E a \in Agents : waiters[i].slot \in owes'[a]
              /\ \A a \in Agents : waiters[i].slot \in owes[a] => waiters[i].slot \in owes'[a]
    PROVE  WakeInv'
<1> SUFFICES ASSUME NEW k \in DOMAIN waiters'
             PROVE  /\ waiters'[k].slot \in DOMAIN bytes'
                    /\ \/ bytes'[waiters'[k].slot] = waiters'[k].expected
                       \/ \E a \in Agents : waiters'[k].slot \in owes'[a]
  BY DEF WakeInv, NoLostWakeup
<1>1. PICK i \in DOMAIN waiters :
              /\ waiters'[k] = waiters[i] /\ waiters[i].slot \in DOMAIN bytes'
              /\ \/ bytes'[waiters[i].slot] = bytes[waiters[i].slot]
                 \/ \E a \in Agents : waiters[i].slot \in owes'[a]
              /\ \A a \in Agents : waiters[i].slot \in owes[a] => waiters[i].slot \in owes'[a]
  OBVIOUS
<1>2. \/ bytes[waiters[i].slot] = waiters[i].expected
      \/ \E a \in Agents : waiters[i].slot \in owes[a]
  BY DEF WakeInv, NoLostWakeup
<1> QED BY <1>1, <1>2

LEMMA ParkWakes ==
    ASSUME WaitsInv, WakeInv, NEW a \in Agents, NEW s \in Slots, NEW v \in SlotValues,
           NEW timed \in BOOLEAN, Park(a, s, v, timed)
    PROVE  WakeInv'
<1> DEFINE e == [id |-> next, slot |-> s, expected |-> v]
<1>1. /\ waiters' = Append(waiters, e) /\ bytes' = bytes /\ owes' = owes
      /\ s \in DOMAIN bytes /\ bytes[s] = v /\ next <= MaxWaits
  BY DEF Park, Join
<1>2. waiters \in Seq(WaitEntries) /\ e \in WaitEntries /\ e.slot = s /\ e.expected = v
  BY <1>1, SharedBlockAssumption DEF WaitsInv, BlockTypes, WaitEntries, Waits
<1> HIDE DEF e
<1>3. \A k \in DOMAIN waiters' :
         (k \in DOMAIN waiters /\ waiters'[k] = waiters[k]) \/ waiters'[k] = e
  BY <1>1, <1>2
<1> QED BY <1>1, <1>2, <1>3 DEF WakeInv, NoLostWakeup

LEMMA WriteWakes ==
    ASSUME WakeInv, NEW a \in Agents, NEW s \in Slots, NEW v \in SlotValues, Write(a, s, v)
    PROVE  WakeInv'
<1>1. /\ s \in DOMAIN bytes /\ bytes' = [bytes EXCEPT ![s] = v]
      /\ owes' = [owes EXCEPT ![a] = IF v = bytes[s] THEN owes[a] ELSE owes[a] \cup {s}]
      /\ waiters' = waiters /\ bytes \in Seq(SlotValues) /\ owes \in [Agents -> SUBSET Slots]
  BY DEF Write, WakeInv
<1>2. /\ bytes' \in Seq(SlotValues) /\ DOMAIN bytes' = DOMAIN bytes
      /\ \A t \in DOMAIN bytes : t # s \/ v = bytes[s] => bytes'[t] = bytes[t]
  BY <1>1
<1>3. /\ owes' \in [Agents -> SUBSET Slots]
      /\ \A b \in Agents : owes[b] \subseteq owes'[b]
      /\ v # bytes[s] => s \in owes'[a]
  BY <1>1
<1>4. \A i \in DOMAIN waiters : waiters[i].slot \in DOMAIN bytes
  BY DEF WakeInv
<1> QED BY <1>1, <1>2, <1>3, <1>4, NoDebtForgiven

LEMMA NotifyWakes ==
    ASSUME WaitsInv, WakeInv, NEW a \in Agents, NEW s \in Slots, NEW count \in Nat,
           NotifyBlock(a, s, count)
    PROVE  WakeInv'
<1> DEFINE gone == FirstOn(waiters, s, count)
<1>1. /\ waiters' \in Without(waiters, gone) /\ bytes' = bytes
      /\ owes' = [owes EXCEPT ![a] = IF count = Everyone THEN owes[a] \ {s} ELSE owes[a]]
      /\ waiters \in Seq(WaitEntries)
      /\ bytes \in Seq(SlotValues) /\ owes \in [Agents -> SUBSET Slots]
  BY DEF NotifyBlock, WakeInv, WaitsInv, BlockTypes
<1>2. /\ owes' \in [Agents -> SUBSET Slots]
      /\ \A b \in Agents, t \in Slots : t # s \/ count # Everyone =>
            (t \in owes[b] => t \in owes'[b])
  BY <1>1
<1>3. count = Everyone => \A i \in DOMAIN waiters : waiters[i].slot = s => i \in gone
  BY EveryoneIsTaken
<1> HIDE DEF gone
<1>4. \A k \in DOMAIN waiters' : \E i \in DOMAIN waiters \ gone : waiters'[k] = waiters[i]
  BY <1>1, Remaining
<1>5. \A i \in DOMAIN waiters \ gone : \A b \in Agents :
         waiters[i].slot \in owes[b] => waiters[i].slot \in owes'[b]
  BY <1>1, <1>2, <1>3
<1>6. \A i \in DOMAIN waiters : waiters[i].slot \in DOMAIN bytes
  BY DEF WakeInv
<1> QED BY <1>1, <1>2, <1>4, <1>5, <1>6, NoDebtForgiven

LEMMA RecheckWakes ==
    ASSUME WaitsInv, WakeInv, NEW a \in Agents, Recheck(a)
    PROVE  WakeInv'
<1>1. /\ waiters' = waiters \/ waiters' \in Without(waiters, Places(local[a].id))
      /\ bytes' = bytes /\ owes' = owes
  BY DEF Recheck
<1>2. waiters \in Seq(WaitEntries)
  BY DEF WaitsInv, BlockTypes
<1>3. \A k \in DOMAIN waiters' : \E i \in DOMAIN waiters : waiters'[k] = waiters[i]
  <2>1. CASE waiters' = waiters
    BY <2>1
  <2>2. CASE waiters' \in Without(waiters, Places(local[a].id))
    BY <1>2, <2>2, Remaining
  <2> QED BY <1>1, <2>1, <2>2
<1>4. /\ \A i \in DOMAIN waiters : waiters[i].slot \in DOMAIN bytes
      /\ bytes \in Seq(SlotValues) /\ owes \in [Agents -> SUBSET Slots]
  BY DEF WakeInv
<1> QED BY <1>1, <1>3, <1>4, NoDebtForgiven

LEMMA GrowWakes ==
    ASSUME WaitsInv, WakeInv, NEW a \in Agents, GrowEnd(a), Len(bytes') >= Len(bytes)
    PROVE  WakeInv'
<1> DEFINE length == local[a].length
           grown == [s \in 1..length |-> IF s \in DOMAIN bytes THEN bytes[s] ELSE Zero]
<1>1. /\ bytes' = IF length > MaxLength THEN bytes ELSE grown
      /\ waiters' = waiters /\ owes' = owes /\ phase[a] = "growing"
  BY DEF GrowEnd
<1>2. length \in Nat
  <2>1. local[a] \in Growing
    BY <1>1 DEF WaitsInv, BlockTypes
  <2> QED BY <2>1, SharedBlockAssumption DEF Growing
<1>3. /\ bytes \in Seq(SlotValues) /\ owes \in [Agents -> SUBSET Slots]
      /\ \A i \in DOMAIN waiters : waiters[i].slot \in DOMAIN bytes
  BY DEF WakeInv
<1>4. grown \in Seq(SlotValues) /\ Len(grown) = length /\ DOMAIN grown = 1..length
  <2>1. \A s \in 1..length : (IF s \in DOMAIN bytes THEN bytes[s] ELSE Zero) \in SlotValues
    BY <1>3, SharedBlockAssumption
  <2> QED BY <1>2, <2>1
<1>5. /\ bytes' \in Seq(SlotValues)
      /\ \A s \in DOMAIN bytes : s \in DOMAIN bytes' /\ bytes'[s] = bytes[s]
  <2>1. CASE length > MaxLength
    BY <1>1, <1>3, <2>1
  <2>2. CASE ~(length > MaxLength)
    <3>1. bytes' = grown
      BY <1>1, <2>2
    <3>2. Len(bytes) <= length
      BY <1>2, <1>3, <1>4, <3>1
    <3>3. \A s \in DOMAIN bytes : s \in 1..length
      BY <1>2, <1>3, <3>2
    <3> QED BY <1>4, <3>1, <3>3
  <2> QED BY <2>1, <2>2
<1> QED BY <1>1, <1>3, <1>5, NoDebtForgiven

LEMMA NextWakes ==
    ASSUME WaitsInv, WakeInv, [BlockNext]_blockVars, [Len(bytes') >= Len(bytes)]_blockVars
    PROVE  WakeInv'
<1> USE DEF block
<1>1. UNCHANGED <<bytes, waiters, owes>> => WakeInv'
  BY DEF WakeInv, NoLostWakeup
<1>2. CASE UNCHANGED blockVars
  BY <1>1, <1>2 DEF blockVars
<1>3. ASSUME NEW a \in Agents, Operate(a) PROVE WakeInv'
  <2>1. ASSUME NEW s \in Slots, NEW v \in SlotValues, NEW timed \in BOOLEAN,
               WaitElapsed(a, s, v) \/ WaitAsync(a, s, v, timed)
        PROVE  WakeInv'
    BY <1>1, <2>1 DEF WaitElapsed, WaitAsync
  <2>2. ASSUME NEW length \in 1..MaxLength + 1, GrowBegin(a, length) PROVE WakeInv'
    BY <1>1, <2>2 DEF GrowBegin
  <2>3. Poll(a) => WakeInv'
    BY <1>1 DEF Poll
  <2>4. {0, 1, Everyone} \subseteq Nat
    BY SharedBlockAssumption DEF Everyone
  <2> QED BY <1>3, <2>1, <2>2, <2>3, <2>4, ParkWakes, WriteWakes, NotifyWakes DEF Operate
<1>4. ASSUME NEW a \in Agents, GrowEnd(a), ~UNCHANGED blockVars PROVE WakeInv'
  BY <1>4, GrowWakes
<1>5. ASSUME NEW a \in Agents, Recheck(a) PROVE WakeInv'
  BY <1>5, RecheckWakes
<1>6. ASSUME NEW a \in Agents,
             \/ NotifyOwn(a) \/ WakeOnTime(a) \/ WakeSpuriously(a)
             \/ ScriptEnds(a) \/ JobEnds(a) \/ RunAgain(a)
             \/ DrainJob(a) \/ DrainOut(a) \/ SleepEnds(a)
      PROVE  WakeInv'
  BY <1>1, <1>6 DEF NotifyOwn, WakeOnTime, WakeSpuriously, Wake, ScriptEnds, JobEnds,
                    RunAgain, DrainJob, DrainOut, SleepEnds
<1>7. ASSUME NEW d \in Deadlines, Elapse(d) PROVE WakeInv'
  BY <1>1, <1>7 DEF Elapse
<1> QED BY <1>2, <1>3, <1>4, <1>5, <1>6, <1>7 DEF BlockNext, Continue, Drain

(* No wake-up is lost, in every behaviour in which the block never gets    *)
(* shorter (the module comment of heap/buffer.rs).  That two agents that   *)
(* grow a block at once may make it shorter is what OnlyGrows finds.       *)
THEOREM NoWakeupLost == BlockSpec /\ OnlyGrows => []NoLostWakeup
<1>1. WakeInv => NoLostWakeup
  BY DEF WakeInv
<1>2. WaitsInv /\ WakeInv /\ [BlockNext]_blockVars /\ [Len(bytes') >= Len(bytes)]_blockVars => WakeInv'
  BY NextWakes
<1> QED BY <1>1, <1>2, InitWakes, WaitsHold, PTL DEF BlockSpec, OnlyGrows


(* A block made with its greatest length never gets shorter: `resize` only *)
(* ever sets that length again (Block::resize).                            *)
FullInv ==
    /\ bytes \in Seq(SlotValues) /\ Len(bytes) = MaxLength
    /\ \A a \in Agents : phase[a] = "growing" => local[a].length >= MaxLength

LEMMA InitFull == InitialLength = MaxLength /\ BlockInit => FullInv
  BY SharedBlockAssumption, SMTT(30) DEF BlockInit, FullInv

LEMMA NextFull == WaitsInv /\ FullInv /\ [BlockNext]_blockVars => FullInv'
<1> SUFFICES ASSUME WaitsInv, FullInv, [BlockNext]_blockVars PROVE FullInv'
  OBVIOUS
<1> USE DEF block
<1>1. /\ phase \in [Agents -> Phases] /\ local \in [Agents -> Locals]
      /\ \A a \in Agents : local[a].from \in {"script", "job"}
      /\ bytes \in Seq(SlotValues) /\ Len(bytes) = MaxLength /\ MaxLength \in Nat
  BY SharedBlockAssumption DEF WaitsInv, BlockTypes, FullInv
<1>2. UNCHANGED <<bytes, phase, local>> => FullInv'
  BY DEF FullInv
(* An agent that moves on, and not to growing.                             *)
<1>3. ASSUME NEW a \in Agents, NEW p, p # "growing", phase' = [phase EXCEPT ![a] = p],
             bytes' = bytes, NEW l, local' = local \/ local' = [local EXCEPT ![a] = l]
      PROVE  FullInv'
  <2>1. /\ phase'[a] # "growing"
        /\ \A b \in Agents \ {a} : phase'[b] = phase[b] /\ local'[b] = local[b]
    BY <1>1, <1>3
  <2> QED BY <1>3, <2>1 DEF FullInv
<1>4. ASSUME NEW a \in Agents, Operate(a) PROVE FullInv'
  <2>1. ASSUME NEW s \in Slots, NEW v \in SlotValues, NEW timed \in BOOLEAN,
               \/ WaitElapsed(a, s, v) \/ WaitAsync(a, s, v, timed)
        PROVE  FullInv'
    BY <1>2, <2>1 DEF WaitElapsed, WaitAsync
  <2>2. ASSUME NEW s \in Slots, NEW v \in SlotValues, Write(a, s, v) PROVE FullInv'
    <3>1. /\ bytes' = [bytes EXCEPT ![s] = v] /\ s \in DOMAIN bytes
          /\ phase' = phase /\ local' = local
      BY <2>2 DEF Write
    <3>2. bytes' \in Seq(SlotValues) /\ Len(bytes') = MaxLength
      BY <1>1, <3>1
    <3> QED BY <3>1, <3>2 DEF FullInv
  <2>3. ASSUME NEW s \in Slots, NEW v \in SlotValues, NEW timed \in BOOLEAN, Park(a, s, v, timed)
        PROVE  FullInv'
    BY <1>3, <2>3 DEF Park, Join
  <2>4. ASSUME NEW s \in Slots, NEW count \in {0, 1, Everyone}, NotifyBlock(a, s, count)
        PROVE  FullInv'
    BY <1>3, <2>4 DEF NotifyBlock
  <2>5. ASSUME NEW length \in 1..MaxLength + 1, GrowBegin(a, length) PROVE FullInv'
    <3> DEFINE l == [from |-> phase[a], length |-> length]
    <3>1. /\ length >= MaxLength /\ bytes' = bytes
          /\ phase' = [phase EXCEPT ![a] = "growing"] /\ local' = [local EXCEPT ![a] = l]
      BY <1>1, <2>5 DEF GrowBegin
    <3>2. l.length >= MaxLength
      BY <3>1
    <3> HIDE DEF l
    <3>3. /\ local'[a] = l
          /\ \A b \in Agents \ {a} : phase'[b] = phase[b] /\ local'[b] = local[b]
      BY <1>1, <3>1
    <3> QED BY <3>1, <3>2, <3>3 DEF FullInv
  <2>6. Poll(a) => FullInv'
    BY <1>2 DEF Poll
  <2> QED BY <1>4, <2>1, <2>2, <2>3, <2>4, <2>5, <2>6 DEF Operate
<1>5. ASSUME NEW a \in Agents, GrowEnd(a) PROVE FullInv'
  <2> DEFINE length == local[a].length
             grown == [s \in 1..length |-> IF s \in DOMAIN bytes THEN bytes[s] ELSE Zero]
  <2>1. /\ bytes' = IF length > MaxLength THEN bytes ELSE grown
        /\ phase[a] = "growing" /\ phase' = [phase EXCEPT ![a] = local[a].from]
        /\ local' = [local EXCEPT ![a] = Idle]
    BY <1>5 DEF GrowEnd, Resume
  <2>2. length >= MaxLength /\ length \in Nat
    <3>1. local[a] \in Growing
      BY <2>1 DEF WaitsInv, BlockTypes
    <3> QED BY <2>1, <3>1, SharedBlockAssumption DEF FullInv, Growing
  <2>3. bytes' = bytes
    <3>1. CASE length > MaxLength
      BY <2>1, <3>1
    <3>2. CASE ~(length > MaxLength)
      <4>1. length = MaxLength /\ bytes' = grown /\ DOMAIN bytes = 1..MaxLength
        BY <1>1, <2>1, <2>2, <3>2
      <4>2. grown = [s \in 1..MaxLength |-> bytes[s]]
        BY <4>1
      <4>3. bytes = [s \in 1..MaxLength |-> bytes[s]]
        BY <1>1
      <4> QED BY <4>1, <4>2, <4>3
    <3> QED BY <3>1, <3>2
  <2>4. local[a].from # "growing"
    BY <1>1
  <2> QED BY <1>3, <2>1, <2>3, <2>4
<1>6. ASSUME NEW a \in Agents, NotifyOwn(a) PROVE FullInv'
  <2>1. local[a].from # "growing"
    BY <1>1
  <2> QED BY <1>3, <1>6, <2>1 DEF NotifyOwn, Resume
<1>7. ASSUME NEW a \in Agents, Recheck(a) PROVE FullInv'
  <2>1. local[a].from # "growing"
    BY <1>1
  <2>2. \A how : End(a, how) /\ bytes' = bytes => FullInv'
    BY <1>3, <2>1 DEF End, Resume
  <2> QED BY <1>2, <1>7, <2>2 DEF Recheck
<1>8. ASSUME NEW a \in Agents, WakeOnTime(a) \/ WakeSpuriously(a) PROVE FullInv'
  BY <1>2, <1>8 DEF WakeOnTime, WakeSpuriously, Wake
<1>9. ASSUME NEW a \in Agents,
             \/ ScriptEnds(a) \/ JobEnds(a) \/ RunAgain(a)
             \/ DrainJob(a) \/ DrainOut(a) \/ SleepEnds(a)
      PROVE  FullInv'
  <2>1. bytes' = bytes /\ local' = local
    BY <1>9 DEF ScriptEnds, JobEnds, RunAgain, DrainJob, DrainOut, SleepEnds
  <2>2. \E p : p # "growing" /\ phase' = [phase EXCEPT ![a] = p]
    BY <1>9 DEF ScriptEnds, JobEnds, RunAgain, DrainJob, DrainOut, SleepEnds
  <2> QED BY <1>3, <2>1, <2>2
<1>10. ASSUME NEW d \in Deadlines, Elapse(d) PROVE FullInv'
  BY <1>2, <1>10 DEF Elapse
<1>11. UNCHANGED blockVars => FullInv'
  BY <1>2 DEF blockVars
<1> QED BY <1>4, <1>5, <1>6, <1>7, <1>8, <1>9, <1>10, <1>11 DEF BlockNext, Continue, Drain

(* So no wake-up is lost on a block that cannot grow.                      *)
THEOREM NoneLostAtFullLength ==
    ASSUME InitialLength = MaxLength
    PROVE  BlockSpec => OnlyGrows /\ []NoLostWakeup
<1>1. BlockInit => FullInv
  BY InitFull
<1>2. FullInv /\ FullInv' => [Len(bytes') >= Len(bytes)]_blockVars
  BY SharedBlockAssumption DEF FullInv
<1>3. BlockSpec => OnlyGrows
  BY <1>1, <1>2, NextFull, WaitsHold, PTL DEF BlockSpec, OnlyGrows
<1> QED BY <1>3, NoWakeupLost, PTL
=============================================================================
