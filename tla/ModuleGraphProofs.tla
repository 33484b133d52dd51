------------------------- MODULE ModuleGraphProofs -------------------------
(***************************************************************************)
(* For every finite set of modules, every set of request lists of bounded  *)
(* length and every number of runs, imports and awaits: the walk places    *)
(* what its entry leads to, a module behind what it requests; every body   *)
(* runs once and behind its dependencies; and an import() is told the      *)
(* truth about its graph.                                                  *)
(***************************************************************************)
EXTENDS ModuleGraph, FiniteSetTheorems, SequenceTheorems, WellFoundedInduction,
        TLAPS

-----------------------------------------------------------------------------
(* Induction over the naturals, for a set: the least number outside it     *)
(* cannot be 0 and cannot follow one inside.                               *)

LEMMA Least ==
    ASSUME NEW T \in SUBSET Nat, T # {}
    PROVE  \E n \in T : \A m \in T : n <= m
<1> DEFINE R == OpToRel(<, Nat)
<1>1. IsWellFoundedOn(R, Nat)
  BY NatLessThanWellFounded
<1>2. \A x, y \in Nat : <<y, x>> \in R <=> y < x
  BY DEF OpToRel
<1> HIDE DEF R
<1>3. PICK n \in T : \A m \in T : ~(<<m, n>> \in R)
  BY <1>1, WFMin
<1>4. \A m \in T : m \in Nat /\ n \in Nat /\ ~(m < n)
  <2> TAKE m \in T
  <2>1. m \in Nat /\ n \in Nat
    OBVIOUS
  <2> QED BY <1>2, <1>3, <2>1
<1> QED BY <1>3, <1>4

LEMMA Induction ==
    ASSUME NEW C, 0 \in C, \A n \in Nat : n \in C => n + 1 \in C
    PROVE  \A n \in Nat : n \in C
<1> SUFFICES ASSUME Nat \ C # {} PROVE FALSE
  OBVIOUS
<1>1. PICK n \in Nat \ C : \A m \in Nat \ C : n <= m
  BY Least
<1>2. n # 0 /\ n - 1 \in Nat /\ ~(n <= n - 1) /\ (n - 1) + 1 = n
  BY <1>1
<1>3. n - 1 \in C
  BY <1>1, <1>2
<1> QED BY <1>1, <1>2, <1>3

-----------------------------------------------------------------------------
(* The walk.                                                               *)

(* A walk is what its turns make of it, one after another: there is        *)
(* exactly one function on 0 .. n that takes n turns, for every n.         *)
LEMMA WalkTurns ==
    ASSUME NEW graph, NEW entry
    PROVE  /\ Walk(graph, entry)[0] = Enter(Setout, graph, entry)
           /\ \A n \in Nat : Walk(graph, entry)[n + 1] = Turn(Walk(graph, entry)[n], graph)
<1> DEFINE B == Enter(Setout, graph, entry)
           Takes(g, n) ==
              /\ g = [i \in 0..n |-> g[i]]
              /\ g[0] = B
              /\ \A i \in 0..n : i # 0 => g[i] = Turn(g[i - 1], graph)
           C == {n \in Nat : \E g : Takes(g, n)}
<1>1. 0 \in C
  <2> DEFINE g == [i \in 0..0 |-> B]
  <2>1. Takes(g, 0)
    OBVIOUS
  <2> QED BY <2>1
<1>2. ASSUME NEW n \in Nat, n \in C PROVE n + 1 \in C
  <2>1. PICK g : Takes(g, n)
    BY <1>2
  <2> DEFINE h == [i \in 0..n + 1 |-> IF i = n + 1 THEN Turn(g[n], graph) ELSE g[i]]
  <2>2. h[0] = B
    BY <2>1
  <2>3. ASSUME NEW i \in 0..n + 1, i # 0 PROVE h[i] = Turn(h[i - 1], graph)
    <3>1. i - 1 \in 0..n /\ i - 1 # n + 1 /\ h[i - 1] = g[i - 1]
      BY <2>3
    <3>2. CASE i = n + 1
      <4>1. i - 1 = n /\ h[i] = Turn(g[n], graph)
        BY <3>2
      <4> HIDE DEF h
      <4> QED BY <3>1, <4>1
    <3>3. CASE i # n + 1
      <4>1. i \in 0..n /\ h[i] = g[i]
        BY <2>3, <3>3
      <4> HIDE DEF h
      <4> QED BY <2>1, <2>3, <3>1, <4>1
    <3> QED BY <3>2, <3>3
  <2>4. h = [i \in 0..n + 1 |-> h[i]]
    OBVIOUS
  <2> HIDE DEF h, B
  <2>5. Takes(h, n + 1) /\ n + 1 \in Nat
    BY <2>2, <2>3, <2>4
  <2> HIDE DEF Takes
  <2> QED BY <2>5
<1>3. \A n \in Nat : \E g : Takes(g, n)
  <2> HIDE DEF C
  <2>1. \A n \in Nat : n \in C
    BY <1>1, <1>2, Induction
  <2> HIDE DEF Takes
  <2> QED BY <2>1 DEF C
<1>4. ASSUME NEW n \in Nat, NEW m \in Nat, NEW g, NEW h, Takes(g, n), Takes(h, m)
      PROVE  \A i \in Nat : i <= n /\ i <= m => g[i] = h[i]
  <2> DEFINE D == {i \in Nat : i <= n /\ i <= m => g[i] = h[i]}
  <2>1. 0 \in D
    BY <1>4
  <2>2. ASSUME NEW i \in Nat, i \in D PROVE i + 1 \in D
    <3> SUFFICES ASSUME i + 1 <= n, i + 1 <= m PROVE g[i + 1] = h[i + 1]
      OBVIOUS
    <3>1. g[i] = h[i] /\ (i + 1) - 1 = i /\ i + 1 # 0 /\ i + 1 \in 0..n /\ i + 1 \in 0..m
      BY <2>2
    <3> QED BY <1>4, <3>1
  <2> HIDE DEF D
  <2>3. \A i \in Nat : i \in D
    BY <2>1, <2>2, Induction
  <2> QED BY <2>3 DEF D
<1> DEFINE P(n) == CHOOSE g : Takes(g, n)
           f == [n \in Nat |-> P(n)[n]]
<1>5. \A n \in Nat : Takes(P(n), n)
  BY <1>3
<1>6. f[0] = B
  BY <1>5
<1>7. ASSUME NEW n \in Nat PROVE f[n + 1] = Turn(f[n], graph)
  <2>1. Takes(P(n), n) /\ Takes(P(n + 1), n + 1)
    <3> HIDE DEF P, Takes
    <3>1. n + 1 \in Nat
      OBVIOUS
    <3> QED BY <1>5, <3>1
  <2>2. P(n + 1)[n] = P(n)[n]
    <3> HIDE DEF P, Takes
    <3>1. \A i \in Nat : i <= n /\ i <= n + 1 => P(n)[i] = P(n + 1)[i]
      BY <1>4, <2>1
    <3> QED BY <3>1
  <2>3. n + 1 \in 0..n + 1 /\ n + 1 # 0 /\ (n + 1) - 1 = n
    OBVIOUS
  <2>4. P(n + 1)[n + 1] = Turn(P(n + 1)[n], graph)
    <3> HIDE DEF P
    <3> QED BY <2>1, <2>3
  <2> HIDE DEF P
  <2> QED BY <2>2, <2>4
<1> HIDE DEF f
<1> DEFINE Solves(g) == g = [n \in Nat |-> IF n = 0 THEN B ELSE Turn(g[n - 1], graph)]
<1>8. Solves(f)
  <2>1. f = [n \in Nat |-> f[n]]
    BY DEF f
  <2>2. \A n \in Nat : f[n] = IF n = 0 THEN B ELSE Turn(f[n - 1], graph)
    <3> TAKE n \in Nat
    <3>1. CASE n = 0
      BY <1>6, <3>1
    <3>2. CASE n # 0
      <4>1. n - 1 \in Nat /\ (n - 1) + 1 = n
        BY <3>2
      <4> QED BY <1>7, <3>2, <4>1
    <3> QED BY <3>1, <3>2
  <2> HIDE DEF B
  <2> QED BY <2>1, <2>2
<1>9. Walk(graph, entry) = CHOOSE g : Solves(g)
  BY DEF Walk
<1>10. Solves(Walk(graph, entry))
  <2> HIDE DEF Solves
  <2> QED BY <1>8, <1>9
<1> HIDE DEF B
<1> DEFINE w == Walk(graph, entry)
<1>11. w = [n \in Nat |-> IF n = 0 THEN B ELSE Turn(w[n - 1], graph)]
  BY <1>10
<1> HIDE DEF w
<1>12. w[0] = B /\ \A n \in Nat : w[n + 1] = Turn(w[n], graph)
  <2>1. w[0] = B
    BY <1>11
  <2>2. ASSUME NEW n \in Nat PROVE w[n + 1] = Turn(w[n], graph)
    <3>1. n + 1 \in Nat /\ n + 1 # 0 /\ (n + 1) - 1 = n
      OBVIOUS
    <3> QED BY <1>11, <3>1
  <2> QED BY <2>1, <2>2
<1> QED BY <1>12 DEF w, B


(* One module leads to another when no set that is closed under requests   *)
(* holds the first alone.                                                  *)
Closed(graph, set) == \A m \in set : Range(graph[m]) \subseteq set
Leads(graph, x, y) ==
    \A set \in SUBSET Modules : x \in set /\ Closed(graph, set) => y \in set

Visits == [module : Modules, left : Seq(Modules)]
Walks == [seen : SUBSET Modules, order : Seq(Modules), visits : Seq(Visits)]

Placed(walk, m) == \E k \in DOMAIN walk.order : walk.order[k] = m
Visiting(walk, m) == \E i \in DOMAIN walk.visits : walk.visits[i].module = m

(* What a walk has seen it has placed or is visiting; no module is visited *)
(* or placed twice.                                                        *)
SeenOnce(walk) ==
    /\ \A m \in Modules : m \in walk.seen <=> Placed(walk, m) \/ Visiting(walk, m)
    /\ \A i, j \in DOMAIN walk.visits :
          walk.visits[i].module = walk.visits[j].module => i = j
    /\ \A m \in Modules : ~(Placed(walk, m) /\ Visiting(walk, m))
    /\ \A i, j \in DOMAIN walk.order : walk.order[i] = walk.order[j] => i = j

(* A visit has followed the requests it no longer has to, and each visit   *)
(* was asked for by the one it is in.                                      *)
VisitsFollow(walk, graph) ==
    \A i \in DOMAIN walk.visits :
       LET visit == walk.visits[i]
       IN  /\ Len(visit.left) <= MaxRequests
           /\ Range(visit.left) \subseteq Range(graph[visit.module])
           /\ Range(graph[visit.module]) \subseteq walk.seen \cup Range(visit.left)
           /\ \A j \in DOMAIN walk.visits :
                 j <= i => Leads(graph, walk.visits[j].module, visit.module)

(* A placed module comes after what it requests, but for a request that    *)
(* leads back to it.                                                       *)
PlacedAfter(walk, graph) ==
    \A k \in DOMAIN walk.order :
       /\ Range(graph[walk.order[k]]) \subseteq walk.seen
       /\ \A m \in Range(graph[walk.order[k]]) :
             \/ \E j \in DOMAIN walk.order : j < k /\ walk.order[j] = m
             \/ Leads(graph, m, walk.order[k])

WalkInv(walk, graph) ==
    /\ walk \in Walks
    /\ SeenOnce(walk) /\ VisitsFollow(walk, graph) /\ PlacedAfter(walk, graph)

LEMMA LeadsOn ==
    ASSUME NEW graph \in Graphs, NEW x \in Modules, NEW y \in Modules,
           NEW z \in Modules, Leads(graph, x, y), z \in Range(graph[y])
    PROVE  Leads(graph, x, z)
BY DEF Leads, Closed

LEMMA LeadsToItself ==
    ASSUME NEW graph \in Graphs, NEW x \in Modules
    PROVE  Leads(graph, x, x)
BY DEF Leads

LEMMA Requests ==
    ASSUME NEW graph \in Graphs, NEW m \in Modules
    PROVE  /\ graph[m] \in Seq(Modules) /\ Len(graph[m]) <= MaxRequests
           /\ Range(graph[m]) \subseteq Modules
<1>1. graph \in [Modules -> Seq(Modules)]
  BY WalkAssumption
<1>2. graph[m] \in Seq(Modules) /\ Len(graph[m]) <= MaxRequests
  BY <1>1, WalkAssumption
<1> QED BY <1>2 DEF Range

(* What a turn does, by element.                                           *)
LEMMA PlaceTurn ==
    ASSUME NEW graph, NEW walk \in Walks, walk.visits # <<>>, Innermost(walk).left = <<>>
    PROVE  LET n == Len(walk.visits) next == Turn(walk, graph)
           IN  /\ next \in Walks /\ next.seen = walk.seen
               /\ Len(next.order) = Len(walk.order) + 1
               /\ \A k \in 1 .. Len(walk.order) : next.order[k] = walk.order[k]
               /\ next.order[Len(walk.order) + 1] = walk.visits[n].module
               /\ Len(next.visits) = n - 1
               /\ \A i \in 1 .. n - 1 : next.visits[i] = walk.visits[i]
<1> DEFINE n == Len(walk.visits)
           o == Append(walk.order, walk.visits[n].module)
           v == SubSeq(walk.visits, 1, n - 1)
<1>1. walk.visits \in Seq(Visits) /\ walk.order \in Seq(Modules) /\ n \in Nat /\ n # 0
  BY DEF Walks
<1>2. walk.visits[n] \in Visits /\ walk.visits[n].module \in Modules
  <2>1. n \in 1 .. Len(walk.visits)
    BY <1>1
  <2>2. walk.visits[n] \in Visits
    BY ONLY <1>1, <2>1, ElementOfSeq
  <2> HIDE DEF n
  <2> QED BY <2>2 DEF Visits
<1>3. o \in Seq(Modules) /\ v \in Seq(Visits) /\ Len(v) = n - 1 /\ Len(o) = Len(walk.order) + 1
  BY <1>1, <1>2
<1>4. /\ \A k \in 1 .. Len(walk.order) : o[k] = walk.order[k]
      /\ o[Len(walk.order) + 1] = walk.visits[n].module
      /\ \A i \in 1 .. n - 1 : v[i] = walk.visits[i]
  BY <1>1, <1>2
<1>5. Turn(walk, graph) = [Return(walk) EXCEPT !.order = Append(@, walk.visits[n].module)]
  BY DEF Turn, Innermost
<1>6. /\ Turn(walk, graph) \in [seen : SUBSET Modules, order : {o}, visits : {v}]
      /\ Turn(walk, graph).seen = walk.seen
  BY <1>5 DEF Return, Walks
<1> HIDE DEF o, v
<1>7. Turn(walk, graph) \in Walks /\ Turn(walk, graph).order = o /\ Turn(walk, graph).visits = v
  BY <1>3, <1>6 DEF Walks
<1> QED BY <1>3, <1>4, <1>6, <1>7

LEMMA FollowTurn ==
    ASSUME NEW graph \in Graphs, NEW walk \in Walks, walk.visits # <<>>, Innermost(walk).left # <<>>
    PROVE  LET n == Len(walk.visits) next == Turn(walk, graph)
               d == Head(walk.visits[n].left)
           IN  /\ next \in Walks /\ next.order = walk.order
               /\ n \in Nat \ {0} /\ walk.visits[n] \in Visits /\ d \in Modules
               /\ next.seen = walk.seen \cup {d}
               /\ Len(next.visits) = IF d \in walk.seen THEN n ELSE n + 1
               /\ \A i \in 1 .. n - 1 : next.visits[i] = walk.visits[i]
               /\ next.visits[n] = Visit(walk.visits[n].module, Tail(walk.visits[n].left))
               /\ d \notin walk.seen => next.visits[n + 1] = Visit(d, graph[d])
<1> DEFINE n == Len(walk.visits)
           d == Head(walk.visits[n].left)
           u == [walk.visits EXCEPT ![n] = Visit(@.module, Tail(@.left))]
           v == IF d \in walk.seen THEN u ELSE Append(u, Visit(d, graph[d]))
<1>1. walk.visits \in Seq(Visits) /\ n \in Nat /\ n # 0 /\ walk.seen \in SUBSET Modules
  BY DEF Walks
<1>2. walk.visits[n] \in Visits /\ walk.visits[n].left \in Seq(Modules) /\ walk.visits[n].left # <<>>
  <2>1. n \in 1 .. Len(walk.visits)
    BY <1>1
  <2>2. walk.visits[n] \in Visits
    BY ONLY <1>1, <2>1, ElementOfSeq
  <2>3. walk.visits[n].left # <<>>
    BY DEF Innermost
  <2> HIDE DEF n
  <2> QED BY <2>2, <2>3 DEF Visits
<1>3. d \in Modules /\ Tail(walk.visits[n].left) \in Seq(Modules)
  BY <1>2
<1>5. Visit(walk.visits[n].module, Tail(walk.visits[n].left)) \in Visits
  BY <1>2, <1>3 DEF Visits, Visit
<1>6. /\ u \in Seq(Visits) /\ Len(u) = n
      /\ \A i \in 1 .. n - 1 : u[i] = walk.visits[i]
      /\ u[n] = Visit(walk.visits[n].module, Tail(walk.visits[n].left))
  BY <1>1, <1>5
<1>7. Visit(d, graph[d]) \in Visits
  BY <1>3, Requests DEF Visits, Visit
<1> HIDE DEF u
<1>8. /\ v \in Seq(Visits) /\ Len(v) = IF d \in walk.seen THEN n ELSE n + 1
      /\ \A i \in 1 .. n : v[i] = u[i]
      /\ d \notin walk.seen => v[n + 1] = Visit(d, graph[d])
  BY <1>1, <1>6, <1>7
<1>9. Follow(walk) = [walk EXCEPT !.visits = u]
  BY <1>1 DEF Follow, u, Walks
<1>10. Turn(walk, graph) = Enter(Follow(walk), graph, d)
  BY DEF Turn, Innermost
<1>11. [walk EXCEPT !.visits = u] = [seen |-> walk.seen, order |-> walk.order, visits |-> u]
  BY DEF Walks
<1>12. Turn(walk, graph) = [seen |-> walk.seen \cup {d}, order |-> walk.order, visits |-> v]
  <2>1. PICK w : w = [seen |-> walk.seen, order |-> walk.order, visits |-> u]
    OBVIOUS
  <2>2. Turn(walk, graph) = Enter(w, graph, d)
    BY ONLY <1>9, <1>10, <1>11, <2>1
  <2>3. w.seen = walk.seen /\ w.order = walk.order /\ w.visits = u
    BY ONLY <2>1
  <2> QED BY ONLY <1>1, <2>1, <2>2, <2>3 DEF Enter, v
<1> HIDE DEF v, d
<1>13. Turn(walk, graph) \in Walks
  BY <1>1, <1>3, <1>8, <1>12 DEF Walks
<1> QED BY <1>1, <1>2, <1>3, <1>6, <1>8, <1>12, <1>13 DEF d

LEMMA WalkStarts ==
    ASSUME NEW graph \in Graphs, NEW entry \in Modules
    PROVE  WalkInv(Enter(Setout, graph, entry), graph) /\ Enter(Setout, graph, entry).seen = {entry}
<1> DEFINE w == Enter(Setout, graph, entry)
<1>1. w = [seen |-> {entry}, order |-> <<>>, visits |-> <<Visit(entry, graph[entry])>>]
  <2> DEFINE v == Visit(entry, graph[entry])
  <2>1. Append(<<>>, v) = <<v>> /\ {} \cup {entry} = {entry}
    OBVIOUS
  <2> HIDE DEF v
  <2>2. ASSUME NEW e, e = [seen |-> {}, order |-> <<>>, visits |-> <<>>]
        PROVE  Enter(e, graph, entry)
                 = [seen |-> e.seen \cup {entry}, order |-> e.order, visits |-> Append(e.visits, v)]
    BY <2>2 DEF Enter, v
  <2>3. Setout.seen = {} /\ Setout.order = <<>> /\ Setout.visits = <<>>
    BY DEF Setout
  <2>4. w = [seen |-> Setout.seen \cup {entry}, order |-> Setout.order,
             visits |-> Append(Setout.visits, v)]
    BY <2>2 DEF Setout
  <2> QED BY <2>1, <2>3, <2>4 DEF v
<1>2. Visit(entry, graph[entry]) \in Visits
  BY Requests DEF Visits, Visit
<1>3. /\ w \in Walks /\ w.seen = {entry} /\ w.order = <<>> /\ Len(w.visits) = 1
      /\ w.visits[1] = Visit(entry, graph[entry])
  BY <1>1, <1>2 DEF Walks
<1> HIDE DEF w
<1>4. DOMAIN w.visits = {1} /\ DOMAIN w.order = {}
  BY <1>3 DEF Walks
<1>5. w.visits[1].module = entry /\ w.visits[1].left = graph[entry]
  BY <1>3 DEF Visit
<1>6. SeenOnce(w)
  BY <1>3, <1>4, <1>5 DEF SeenOnce, Placed, Visiting
<1>7. VisitsFollow(w, graph)
  BY <1>3, <1>4, <1>5, Requests, LeadsToItself DEF VisitsFollow
<1>8. PlacedAfter(w, graph)
  BY <1>4 DEF PlacedAfter
<1> QED BY <1>3, <1>6, <1>7, <1>8 DEF WalkInv, w

LEMMA PlaceKeeps ==
    ASSUME NEW graph \in Graphs, NEW walk, WalkInv(walk, graph),
           walk.visits # <<>>, Innermost(walk).left = <<>>
    PROVE  WalkInv(Turn(walk, graph), graph)
<1> DEFINE n == Len(walk.visits)
           p == Len(walk.order)
           next == Turn(walk, graph)
           m == walk.visits[n].module
<1>1. walk \in Walks
  BY DEF WalkInv
<1>2. n \in Nat /\ p \in Nat /\ n # 0 /\ DOMAIN walk.visits = 1..n /\ DOMAIN walk.order = 1..p
  BY <1>1 DEF Walks
<1>3. /\ next \in Walks /\ next.seen = walk.seen
      /\ Len(next.order) = p + 1
      /\ \A k \in 1 .. p : next.order[k] = walk.order[k]
      /\ next.order[p + 1] = m
      /\ Len(next.visits) = n - 1
      /\ \A i \in 1 .. n - 1 : next.visits[i] = walk.visits[i]
  BY <1>1, PlaceTurn
<1>4. DOMAIN next.visits = 1..n - 1 /\ DOMAIN next.order = 1..p + 1
  BY <1>3 DEF Walks
<1>5. m \in Modules /\ Len(walk.visits[n].left) = 0 /\ Range(walk.visits[n].left) = {}
  <2>1. walk.visits \in Seq(Visits) /\ n \in 1..Len(walk.visits)
    BY <1>1, <1>2 DEF Walks
  <2>2. walk.visits[n] \in Visits
    BY ONLY <2>1, ElementOfSeq
  <2> QED BY <2>2 DEF Visits, Innermost, Range
<1> HIDE DEF next, m, n, p
<1>5a. /\ n \in 1 .. n /\ walk.visits[n].module = m
       /\ \A i \in 1 .. n - 1 : i \in 1 .. n /\ i # n
       /\ \A i \in 1 .. n : i = n \/ i \in 1 .. n - 1
  BY <1>2 DEF m
<1>5b. /\ p + 1 \in 1 .. p + 1
       /\ \A k \in 1 .. p : k \in 1 .. p + 1
       /\ \A k \in 1 .. p + 1 : k = p + 1 \/ k \in 1 .. p
  BY <1>2
<1>6. \A x : Placed(next, x) <=> Placed(walk, x) \/ x = m
  <2>1. ASSUME NEW x PROVE Placed(next, x) <=> \E k \in 1 .. p + 1 : next.order[k] = x
    BY ONLY <1>4 DEF Placed
  <2>2. ASSUME NEW x PROVE Placed(walk, x) <=> \E k \in 1 .. p : walk.order[k] = x
    BY ONLY <1>2 DEF Placed
  <2>3. ASSUME NEW x
        PROVE  (\E k \in 1 .. p + 1 : next.order[k] = x)
                  <=> (\E k \in 1 .. p : next.order[k] = x) \/ next.order[p + 1] = x
    BY ONLY <1>5b
  <2>4. /\ \A k \in 1 .. p : next.order[k] = walk.order[k]
        /\ next.order[p + 1] = m
    BY ONLY <1>3
  <2>5. ASSUME NEW x
        PROVE  (\E k \in 1 .. p : next.order[k] = x) <=> (\E k \in 1 .. p : walk.order[k] = x)
    BY ONLY <2>4
  <2> QED BY ONLY <2>1, <2>2, <2>3, <2>4, <2>5
<1>7. \A x : Visiting(walk, x) <=> Visiting(next, x) \/ x = m
  <2>1. ASSUME NEW x PROVE Visiting(walk, x) <=> \E i \in 1 .. n : walk.visits[i].module = x
    BY ONLY <1>2 DEF Visiting
  <2>2. ASSUME NEW x PROVE Visiting(next, x) <=> \E i \in 1 .. n - 1 : next.visits[i].module = x
    BY ONLY <1>4 DEF Visiting
  <2>3. ASSUME NEW x
        PROVE  (\E i \in 1 .. n : walk.visits[i].module = x)
                  <=> (\E i \in 1 .. n - 1 : walk.visits[i].module = x) \/ x = m
    BY ONLY <1>5a
  <2>4. \A i \in 1 .. n - 1 : next.visits[i] = walk.visits[i]
    BY ONLY <1>3
  <2>5. ASSUME NEW x
        PROVE  (\E i \in 1 .. n - 1 : next.visits[i].module = x)
                  <=> (\E i \in 1 .. n - 1 : walk.visits[i].module = x)
    BY ONLY <2>4
  <2> QED BY ONLY <2>1, <2>2, <2>3, <2>5
<1>8. ~Visiting(next, m)
  <2>1. \A i, j \in 1 .. n : walk.visits[i].module = walk.visits[j].module => i = j
    BY ONLY <1>2, WalkInv(walk, graph) DEF WalkInv, SeenOnce
  <2>2. Visiting(next, m) <=> \E i \in 1 .. n - 1 : next.visits[i].module = m
    BY ONLY <1>4 DEF Visiting
  <2> QED BY ONLY <1>3, <1>5a, <2>1, <2>2
<1>9. SeenOnce(next)
  <2>1. ASSUME NEW i \in 1 .. p + 1, NEW j \in 1 .. p + 1, next.order[i] = next.order[j]
        PROVE  i = j
    <3>1. \A k \in 1 .. p : walk.order[k] # m
      BY <1>2, <1>5, <1>7 DEF WalkInv, SeenOnce, Placed
    <3>2. (i \in 1 .. p \/ i = p + 1) /\ (j \in 1 .. p \/ j = p + 1)
      BY <1>2
    <3>3. CASE i \in 1 .. p /\ j \in 1 .. p
      BY <1>2, <1>3, <2>1, <3>3 DEF WalkInv, SeenOnce
    <3> QED BY <1>3, <2>1, <3>1, <3>2, <3>3
  <2>2. /\ \A x \in Modules : x \in next.seen <=> Placed(next, x) \/ Visiting(next, x)
        /\ \A i, j \in DOMAIN next.visits :
              next.visits[i].module = next.visits[j].module => i = j
        /\ \A x \in Modules : ~(Placed(next, x) /\ Visiting(next, x))
    <3>1. /\ \A x \in Modules : x \in walk.seen <=> Placed(walk, x) \/ Visiting(walk, x)
          /\ \A i, j \in 1 .. n : walk.visits[i].module = walk.visits[j].module => i = j
          /\ \A x \in Modules : ~(Placed(walk, x) /\ Visiting(walk, x))
      BY ONLY <1>2, WalkInv(walk, graph) DEF WalkInv, SeenOnce
    <3>2. \A x \in Modules : x \in next.seen <=> Placed(next, x) \/ Visiting(next, x)
      BY ONLY <1>3, <1>6, <1>7, <3>1
    <3>3. \A i, j \in 1 .. n - 1 : next.visits[i].module = next.visits[j].module => i = j
      BY ONLY <1>3, <1>5a, <3>1
    <3>4. \A x \in Modules : ~(Placed(next, x) /\ Visiting(next, x))
      BY ONLY <1>6, <1>7, <1>8, <3>1
    <3> QED BY ONLY <1>4, <3>2, <3>3, <3>4
  <2> QED BY <1>4, <2>1, <2>2 DEF SeenOnce
<1>10. VisitsFollow(next, graph)
  <2>1. \A i \in DOMAIN next.visits : i \in DOMAIN walk.visits /\ next.visits[i] = walk.visits[i]
    BY <1>2, <1>3, <1>4
  <2> QED BY <1>3, <2>1 DEF VisitsFollow, WalkInv
<1>11. PlacedAfter(next, graph)
  <2> SUFFICES ASSUME NEW k \in DOMAIN next.order
               PROVE  /\ Range(graph[next.order[k]]) \subseteq next.seen
                      /\ \A x \in Range(graph[next.order[k]]) :
                            \/ \E j \in DOMAIN next.order : j < k /\ next.order[j] = x
                            \/ Leads(graph, x, next.order[k])
    BY DEF PlacedAfter
  <2>1. CASE k \in 1..p
    <3>1. next.order[k] = walk.order[k] /\ k \in DOMAIN walk.order
      BY <1>2, <1>3, <2>1
    <3>2. \A j \in DOMAIN walk.order : j \in DOMAIN next.order /\ next.order[j] = walk.order[j]
      BY <1>2, <1>3, <1>4
    <3> QED BY <1>3, <3>1, <3>2 DEF WalkInv, PlacedAfter
  <2>2. CASE k = p + 1
    <3>1. next.order[k] = m
      BY <1>3, <2>2
    <3>2. n \in DOMAIN walk.visits
      BY <1>2
    <3>3. Range(graph[m]) \subseteq walk.seen
      BY <1>5, <3>2 DEF WalkInv, VisitsFollow, m
    <3>4. ASSUME NEW x \in Range(graph[m])
          PROVE  \/ \E j \in DOMAIN next.order : j < k /\ next.order[j] = x
                 \/ Leads(graph, x, m)
      <4>1. x \in Modules
        BY <1>5, Requests
      <4>2. CASE Placed(walk, x)
        <5>1. PICK j \in DOMAIN walk.order : walk.order[j] = x
          BY <4>2 DEF Placed
        <5> QED BY <1>2, <1>3, <1>4, <2>2, <5>1
      <4>3. CASE Visiting(walk, x)
        <5>1. PICK j \in DOMAIN walk.visits : walk.visits[j].module = x
          BY <4>3 DEF Visiting
        <5>2. j <= n
          BY <1>2
        <5> QED BY <3>2, <5>1, <5>2 DEF WalkInv, VisitsFollow, m
      <4> QED BY <3>3, <4>1, <4>2, <4>3 DEF WalkInv, SeenOnce
    <3> QED BY <1>3, <3>1, <3>3, <3>4
  <2> QED BY <1>2, <1>4, <2>1, <2>2
<1> QED BY <1>3, <1>9, <1>10, <1>11 DEF WalkInv, next

LEMMA FollowKeeps ==
    ASSUME NEW graph \in Graphs, NEW walk, WalkInv(walk, graph),
           walk.visits # <<>>, Innermost(walk).left # <<>>
    PROVE  WalkInv(Turn(walk, graph), graph)
<1> DEFINE n == Len(walk.visits)
           next == Turn(walk, graph)
           m == walk.visits[n].module
           d == Head(walk.visits[n].left)
           rest == Tail(walk.visits[n].left)
<1>1. walk \in Walks
  BY DEF WalkInv
<1>2. /\ next \in Walks /\ next.order = walk.order
      /\ n \in Nat \ {0} /\ walk.visits[n] \in Visits /\ d \in Modules
      /\ next.seen = walk.seen \cup {d}
      /\ Len(next.visits) = IF d \in walk.seen THEN n ELSE n + 1
      /\ \A i \in 1 .. n - 1 : next.visits[i] = walk.visits[i]
      /\ next.visits[n] = Visit(m, rest)
      /\ d \notin walk.seen => next.visits[n + 1] = Visit(d, graph[d])
  BY <1>1, FollowTurn
<1>3. /\ DOMAIN walk.visits = 1..n
      /\ DOMAIN next.visits = IF d \in walk.seen THEN 1..n ELSE 1..n + 1
  BY <1>1, <1>2 DEF Walks
<1>4. /\ m \in Modules /\ Len(rest) + 1 = Len(walk.visits[n].left) /\ Len(rest) \in Nat
      /\ Range(walk.visits[n].left) = Range(rest) \cup {d}
  <2>1. walk.visits[n].left \in Seq(Modules) /\ walk.visits[n].left # <<>> /\ m \in Modules
    BY <1>2 DEF Visits, Innermost
  <2>2. \A s \in Seq(Modules) : s # <<>> =>
           Len(Tail(s)) + 1 = Len(s) /\ Len(Tail(s)) \in Nat /\ Range(s) = Range(Tail(s)) \cup {Head(s)}
    <3> SUFFICES ASSUME NEW s \in Seq(Modules), s # <<>>
                 PROVE  Len(Tail(s)) + 1 = Len(s) /\ Len(Tail(s)) \in Nat /\ Range(s) = Range(Tail(s)) \cup {Head(s)}
      OBVIOUS
    <3>1. Len(Tail(s)) + 1 = Len(s) /\ Len(Tail(s)) \in Nat /\ Head(s) = s[1]
      OBVIOUS
    <3>2. \A i \in 1..Len(s) - 1 : Tail(s)[i] = s[i + 1]
      OBVIOUS
    <3>3. DOMAIN s = 1..Len(s) /\ DOMAIN Tail(s) = 1..Len(s) - 1
      OBVIOUS
    <3>4. ASSUME NEW i \in 1..Len(s) PROVE s[i] \in Range(Tail(s)) \cup {Head(s)}
      <4>1. i = 1 \/ (i - 1 \in 1..Len(s) - 1 /\ s[i] = Tail(s)[i - 1])
        BY <3>2
      <4> QED BY <3>1, <3>3, <4>1 DEF Range
    <3>5. ASSUME NEW i \in 1..Len(s) - 1 PROVE Tail(s)[i] \in Range(s)
      BY <3>2, <3>3 DEF Range
    <3>6. Head(s) \in Range(s)
      BY <3>1, <3>3 DEF Range
    <3> QED BY <3>1, <3>3, <3>4, <3>5, <3>6 DEF Range
  <2> QED BY <2>1, <2>2
<1> HIDE DEF next, n
<1>5. /\ \A i \in 1..n : next.visits[i].module = walk.visits[i].module
      /\ next.visits[n].left = rest
      /\ d \notin walk.seen => next.visits[n + 1].module = d /\ next.visits[n + 1].left = graph[d]
  <2>1. n \in 1..n /\ \A i \in 1..n : i # n => i \in 1..n - 1
    BY <1>2
  <2> QED BY <1>2, <2>1 DEF Visit
<1> HIDE DEF rest
<1>6. d \in Range(graph[m]) /\ \A j \in 1..n : Leads(graph, walk.visits[j].module, m)
  <2>1. n \in DOMAIN walk.visits
    BY <1>2, <1>3
  <2>2. Range(walk.visits[n].left) \subseteq Range(graph[m])
    BY <2>1 DEF WalkInv, VisitsFollow
  <2>3. \A j \in 1..n : j <= n
    BY <1>2
  <2> QED BY <1>3, <1>4, <2>1, <2>2, <2>3 DEF WalkInv, VisitsFollow
<1> HIDE DEF d, m
<1>7. \A x : Placed(next, x) <=> Placed(walk, x)
  BY <1>2 DEF Placed
<1>8. \A x : Visiting(next, x) <=> Visiting(walk, x) \/ (x = d /\ d \notin walk.seen)
  <2>1. CASE d \in walk.seen
    BY <1>3, <1>5, <2>1 DEF Visiting
  <2>2. CASE d \notin walk.seen
    <3>1. 1..n + 1 = 1..n \cup {n + 1}
      BY <1>2
    <3>2. DOMAIN next.visits = 1..n \cup {n + 1}
      BY <1>3, <2>2, <3>1
    <3> QED BY <1>3, <1>5, <2>2, <3>2 DEF Visiting
  <2> QED BY <2>1, <2>2
<1>9. SeenOnce(next)
  <2>1. \A x \in Modules : x \in next.seen <=> Placed(next, x) \/ Visiting(next, x)
    BY <1>2, <1>7, <1>8 DEF WalkInv, SeenOnce
  <2>2. \A x \in Modules : ~(Placed(next, x) /\ Visiting(next, x))
    BY <1>2, <1>7, <1>8 DEF WalkInv, SeenOnce
  <2>3. ASSUME NEW i \in DOMAIN next.visits, NEW j \in DOMAIN next.visits,
               next.visits[i].module = next.visits[j].module
        PROVE  i = j
    <3>1. CASE i \in 1..n /\ j \in 1..n
      BY <1>3, <1>5, <2>3, <3>1 DEF WalkInv, SeenOnce
    <3>2. CASE d \notin walk.seen
      <4>1. ~Visiting(walk, d)
        BY <1>2, <3>2 DEF WalkInv, SeenOnce
      <4>2. \A k \in 1..n : next.visits[k].module # d
        BY <1>3, <1>5, <4>1 DEF Visiting
      <4>3. (i \in 1..n \/ i = n + 1) /\ (j \in 1..n \/ j = n + 1)
        BY <1>2, <1>3, <3>2
      <4> QED BY <1>5, <2>3, <3>1, <3>2, <4>2, <4>3
    <3> QED BY <1>3, <3>1, <3>2
  <2>4. \A i, j \in DOMAIN next.order : next.order[i] = next.order[j] => i = j
    BY <1>2 DEF WalkInv, SeenOnce
  <2> QED BY <2>1, <2>2, <2>3, <2>4 DEF SeenOnce
<1>10. VisitsFollow(next, graph)
  <2> SUFFICES ASSUME NEW i \in DOMAIN next.visits
               PROVE  /\ Len(next.visits[i].left) <= MaxRequests
                      /\ Range(next.visits[i].left) \subseteq Range(graph[next.visits[i].module])
                      /\ Range(graph[next.visits[i].module]) \subseteq next.seen \cup Range(next.visits[i].left)
                      /\ \A j \in DOMAIN next.visits :
                            j <= i => Leads(graph, next.visits[j].module, next.visits[i].module)
    BY DEF VisitsFollow
  <2>1. CASE i \in 1..n
    <3>1. i \in DOMAIN walk.visits /\ next.visits[i].module = walk.visits[i].module
      BY <1>3, <1>5, <2>1
    <3>2. \A j \in DOMAIN next.visits : j <= i =>
            Leads(graph, next.visits[j].module, next.visits[i].module)
      <4>1. ASSUME NEW j \in DOMAIN next.visits, j <= i PROVE j \in 1..n
        BY <1>2, <1>3, <2>1, <4>1
      <4> QED BY <1>3, <1>5, <3>1, <4>1 DEF WalkInv, VisitsFollow
    <3>3. /\ Len(walk.visits[i].left) <= MaxRequests
          /\ Range(walk.visits[i].left) \subseteq Range(graph[walk.visits[i].module])
          /\ Range(graph[walk.visits[i].module]) \subseteq walk.seen \cup Range(walk.visits[i].left)
      BY <3>1 DEF WalkInv, VisitsFollow
    <3>4. CASE i = n
      <4>1. Len(rest) <= MaxRequests
        BY <1>4, <3>3, <3>4, WalkAssumption
      <4> QED BY <1>2, <1>4, <1>5, <3>1, <3>2, <3>3, <3>4, <4>1
    <3>5. CASE i # n
      <4>1. next.visits[i] = walk.visits[i]
        BY <1>2, <2>1, <3>5
      <4> QED BY <1>2, <3>2, <3>3, <4>1
    <3> QED BY <3>4, <3>5
  <2>2. CASE i = n + 1 /\ d \notin walk.seen
    <3>1. next.visits[i].module = d /\ next.visits[i].left = graph[d]
      BY <1>5, <2>2
    <3>2. \A j \in 1..n : Leads(graph, next.visits[j].module, d)
      <4>1. \A j \in 1..n : walk.visits[j].module \in Modules
        <5>1. walk.visits \in Seq(Visits) /\ n = Len(walk.visits)
          BY <1>1 DEF Walks, n
        <5>2. \A j \in 1..n : walk.visits[j] \in Visits
          BY ONLY <5>1, ElementOfSeq
        <5> QED BY <5>2 DEF Visits
      <4> QED BY <1>2, <1>4, <1>5, <1>6, <4>1, LeadsOn
    <3>3. \A j \in DOMAIN next.visits : j \in 1..n \/ j = n + 1
      BY <1>2, <1>3, <2>2
    <3>4. \A j \in DOMAIN next.visits : Leads(graph, next.visits[j].module, d)
      BY <1>2, <2>2, <3>1, <3>2, <3>3, LeadsToItself
    <3> QED BY <1>2, <3>1, <3>4, Requests
  <2> QED BY <1>2, <1>3, <2>1, <2>2
<1>11. PlacedAfter(next, graph)
  BY <1>2 DEF WalkInv, PlacedAfter
<1> QED BY <1>2, <1>9, <1>10, <1>11 DEF WalkInv, next

(* A visit with k requests to follow has spent its turns but for the last  *)
(* k and the one that places the module, number 0.                         *)
Spent(walk) ==
    {p \in Modules \X (0 .. MaxRequests) :
        \/ Placed(walk, p[1])
        \/ \E i \in DOMAIN walk.visits :
              /\ walk.visits[i].module = p[1]
              /\ Len(walk.visits[i].left) < p[2]}

LEMMA SpentIsBounded ==
    ASSUME NEW walk
    PROVE  /\ IsFiniteSet(Modules \X (0 .. MaxRequests))
           /\ Turns \in Nat /\ Cardinality(Modules \X (0 .. MaxRequests)) = Turns
           /\ IsFiniteSet(Spent(walk)) /\ Cardinality(Spent(walk)) \in Nat
           /\ Cardinality(Spent(walk)) <= Turns
           /\ Cardinality(Spent(walk)) = Turns => Spent(walk) = Modules \X (0 .. MaxRequests)
<1>1. IsFiniteSet(Modules) /\ MaxRequests \in Nat
  BY WalkAssumption
<1>2. IsFiniteSet(0 .. MaxRequests) /\ Cardinality(0 .. MaxRequests) = MaxRequests + 1
  <2>1. 0 \in Int /\ MaxRequests \in Int /\ ~(0 > MaxRequests) /\ MaxRequests - 0 + 1 = MaxRequests + 1
    BY <1>1
  <2> QED BY ONLY <2>1, FS_Interval
<1>3. /\ IsFiniteSet(Modules \X (0 .. MaxRequests))
      /\ Cardinality(Modules \X (0 .. MaxRequests)) = Turns
  BY <1>1, <1>2, FS_Product DEF Turns
<1>4. Spent(walk) \in SUBSET (Modules \X (0 .. MaxRequests))
  BY DEF Spent
<1>5. /\ IsFiniteSet(Spent(walk))
      /\ Cardinality(Spent(walk)) <= Cardinality(Modules \X (0 .. MaxRequests))
      /\ Cardinality(Modules \X (0 .. MaxRequests)) = Cardinality(Spent(walk))
            => Modules \X (0 .. MaxRequests) = Spent(walk)
  BY ONLY <1>3, <1>4, FS_Subset
<1>6. Cardinality(Spent(walk)) \in Nat /\ Turns \in Nat
  BY <1>3, <1>5, FS_CardinalityType
<1> QED BY <1>3, <1>5, <1>6

LEMMA SpentGrows ==
    ASSUME NEW walk, NEW next, NEW p, NEW q \in Modules \X (0 .. MaxRequests),
           Spent(walk) \cup {p} \subseteq Spent(next), p \notin Spent(walk),
           q \notin Spent(walk)
    PROVE  /\ Cardinality(Spent(walk)) + 1 <= Cardinality(Spent(next))
           /\ Cardinality(Spent(walk)) < Turns
<1>1. /\ IsFiniteSet(Spent(walk)) /\ IsFiniteSet(Spent(next)) /\ Turns \in Nat
      /\ Cardinality(Spent(walk)) \in Nat /\ Cardinality(Spent(walk)) <= Turns
      /\ Cardinality(Spent(walk)) # Turns
  BY SpentIsBounded
<1>2. Cardinality(Spent(walk) \cup {p}) = Cardinality(Spent(walk)) + 1
  BY <1>1, FS_AddElement
<1>3. Cardinality(Spent(walk) \cup {p}) <= Cardinality(Spent(next))
  BY <1>1, FS_Subset
<1> QED BY <1>1, <1>2, <1>3

LEMMA TurnSpends ==
    ASSUME NEW graph \in Graphs, NEW walk, WalkInv(walk, graph), walk.visits # <<>>
    PROVE  /\ WalkInv(Turn(walk, graph), graph)
           /\ walk.seen \subseteq Turn(walk, graph).seen
           /\ Cardinality(Spent(walk)) + 1 <= Cardinality(Spent(Turn(walk, graph)))
           /\ Cardinality(Spent(walk)) < Turns
<1> DEFINE n == Len(walk.visits)
           next == Turn(walk, graph)
           m == walk.visits[n].module
           k == Len(walk.visits[n].left)
           p == <<m, k>>
<1>1. walk \in Walks
  BY DEF WalkInv
<1>2. /\ n \in Nat /\ n # 0 /\ DOMAIN walk.visits = 1..n
      /\ \A i \in 1..n : walk.visits[i].module \in Modules /\ walk.visits[i].left \in Seq(Modules)
  <2>1. walk.visits \in Seq(Visits) /\ n = Len(walk.visits)
    BY <1>1 DEF Walks
  <2>2. \A i \in 1..n : walk.visits[i] \in Visits
    BY ONLY <2>1, ElementOfSeq
  <2>3. n \in Nat /\ n # 0 /\ DOMAIN walk.visits = 1..n
    BY <2>1
  <2> HIDE DEF n
  <2> QED BY <2>2, <2>3 DEF Visits
<1>3. n \in 1..n /\ k \in Nat /\ k <= MaxRequests /\ m \in Modules
  <2>1. n \in DOMAIN walk.visits
    BY <1>2
  <2>2. k <= MaxRequests
    BY <2>1 DEF WalkInv, VisitsFollow
  <2> HIDE DEF n
  <2> QED BY <1>2, <2>1, <2>2
<1>4. p \in Modules \X (0 .. MaxRequests) /\ <<m, 0>> \in Modules \X (0 .. MaxRequests)
  BY <1>3, WalkAssumption
<1>5. ~Placed(walk, m)
  BY <1>2, <1>3 DEF WalkInv, SeenOnce, Visiting
<1>6. \A i \in 1..n : walk.visits[i].module = m => i = n
  BY <1>2, <1>3 DEF WalkInv, SeenOnce
<1>7. p \notin Spent(walk) /\ <<m, 0>> \notin Spent(walk)
  <2>1. ASSUME NEW j \in 0..k, <<m, j>> \in Spent(walk) PROVE FALSE
    <3>1. PICK i \in DOMAIN walk.visits : walk.visits[i].module = m /\ Len(walk.visits[i].left) < j
      BY <1>5, <2>1 DEF Spent
    <3>2. i = n
      BY <1>2, <1>6, <3>1
    <3> QED BY <1>3, <3>1, <3>2
  <2>2. 0 \in 0..k /\ k \in 0..k
    BY <1>3
  <2> HIDE DEF m, k
  <2> QED BY <2>1, <2>2
<1>8. CASE Innermost(walk).left = <<>>
  <2>1. WalkInv(next, graph)
    BY <1>8, PlaceKeeps
  <2>2. /\ next \in Walks /\ next.seen = walk.seen
        /\ Len(next.order) = Len(walk.order) + 1
        /\ \A i \in 1 .. Len(walk.order) : next.order[i] = walk.order[i]
        /\ next.order[Len(walk.order) + 1] = m
        /\ Len(next.visits) = n - 1
        /\ \A i \in 1 .. n - 1 : next.visits[i] = walk.visits[i]
    BY <1>1, <1>8, PlaceTurn
  <2>3. /\ DOMAIN next.visits = 1..n - 1 /\ DOMAIN next.order = 1..Len(walk.order) + 1
        /\ DOMAIN walk.order = 1..Len(walk.order) /\ Len(walk.order) \in Nat
    BY <1>1, <2>2 DEF Walks
  <2> HIDE DEF next, m
  <2>4. Placed(next, m) /\ \A x : Placed(walk, x) => Placed(next, x)
    <3>1. 1..Len(walk.order) + 1 = 1..Len(walk.order) \cup {Len(walk.order) + 1}
      BY <2>3
    <3>2. Placed(next, m)
      BY <2>2, <2>3, <3>1 DEF Placed
    <3>3. ASSUME NEW x, Placed(walk, x) PROVE Placed(next, x)
      BY <2>2, <2>3, <3>1, <3>3 DEF Placed
    <3> QED BY <3>2, <3>3
  <2>5. Spent(walk) \cup {p} \subseteq Spent(next)
    <3>1. p \in Spent(next)
      BY <1>4, <2>4 DEF Spent
    <3>2. ASSUME NEW q \in Spent(walk) PROVE q \in Spent(next)
      <4>1. q \in Modules \X (0 .. MaxRequests)
        BY DEF Spent
      <4>2. CASE Placed(walk, q[1])
        BY <2>4, <4>1, <4>2 DEF Spent
      <4>3. ASSUME NEW i \in DOMAIN walk.visits, walk.visits[i].module = q[1],
                   Len(walk.visits[i].left) < q[2]
            PROVE  q \in Spent(next)
        <5>1. CASE i = n
          BY <2>4, <4>1, <4>3, <5>1 DEF Spent, m
        <5>2. CASE i # n
          <6>1. i \in 1..n - 1
            BY <1>2, <5>2
          <6> QED BY <2>2, <2>3, <4>1, <4>3, <6>1 DEF Spent
        <5> QED BY <5>1, <5>2
      <4> QED BY <4>2, <4>3 DEF Spent
    <3> QED BY <3>1, <3>2
  <2> QED BY <2>1, <2>2, <2>5, <1>4, <1>7, SpentGrows DEF next
<1>9. CASE Innermost(walk).left # <<>>
  <2>1. WalkInv(next, graph)
    BY <1>9, FollowKeeps
  <2>2. /\ next \in Walks /\ next.order = walk.order
        /\ next.seen = walk.seen \cup {Head(walk.visits[n].left)}
        /\ Len(next.visits) >= n
        /\ \A i \in 1 .. n - 1 : next.visits[i] = walk.visits[i]
        /\ next.visits[n] = Visit(m, Tail(walk.visits[n].left))
    <3>1. LET d == Head(walk.visits[n].left)
          IN  /\ next \in Walks /\ next.order = walk.order
              /\ next.seen = walk.seen \cup {d}
              /\ Len(next.visits) = IF d \in walk.seen THEN n ELSE n + 1
              /\ \A i \in 1 .. n - 1 : next.visits[i] = walk.visits[i]
              /\ next.visits[n] = Visit(m, Tail(walk.visits[n].left))
      BY <1>1, <1>9, FollowTurn
    <3> HIDE DEF next, n
    <3> QED BY <1>2, <3>1
  <2>3. 1..n \subseteq DOMAIN next.visits
    <3>1. next.visits \in Seq(Visits)
      BY <2>2 DEF Walks
    <3> QED BY <1>2, <2>2, <3>1
  <2>4. Len(Tail(walk.visits[n].left)) = k - 1
    BY <1>2, <1>3, <1>9 DEF Innermost
  <2>5. next.visits[n].module = m /\ Len(next.visits[n].left) = k - 1
    BY <2>2, <2>4 DEF Visit
  <2> HIDE DEF next, m, k, n
  <2>6. \A x : Placed(walk, x) => Placed(next, x)
    BY <2>2 DEF Placed
  <2>7. Spent(walk) \cup {p} \subseteq Spent(next)
    <3>1. p \in Spent(next)
      <4>1. p[1] = m /\ p[2] = k /\ k - 1 < k /\ n \in DOMAIN next.visits
        BY <1>3, <2>3
      <4> HIDE DEF p
      <4> QED BY <1>4, <2>5, <4>1 DEF Spent
    <3>2. ASSUME NEW q \in Spent(walk) PROVE q \in Spent(next)
      <4>1. q \in Modules \X (0 .. MaxRequests)
        BY DEF Spent
      <4>2. CASE Placed(walk, q[1])
        BY <2>6, <4>1, <4>2 DEF Spent
      <4>3. ASSUME NEW i \in DOMAIN walk.visits, walk.visits[i].module = q[1],
                   Len(walk.visits[i].left) < q[2]
            PROVE  q \in Spent(next)
        <5>1. CASE i = n
          <6>1. k - 1 < q[2] /\ m = q[1]
            BY <1>3, <4>1, <4>3, <5>1, WalkAssumption DEF k, m
          <6> QED BY <1>3, <2>3, <2>5, <4>1, <6>1 DEF Spent
        <5>2. CASE i # n
          <6>1. i \in 1..n - 1 /\ i \in 1..n
            BY <1>2, <5>2
          <6> QED BY <2>2, <2>3, <4>1, <4>3, <6>1 DEF Spent
        <5> QED BY <5>1, <5>2
      <4> QED BY <4>2, <4>3 DEF Spent
    <3> QED BY <3>1, <3>2
  <2> QED BY <2>1, <2>2, <2>7, <1>4, <1>7, SpentGrows DEF next
<1> QED BY <1>8, <1>9

(* A walk sees only what its entry leads to.                               *)
LEMMA SeesWhatIsLedTo ==
    ASSUME NEW graph \in Graphs, NEW entry \in Modules, NEW walk, WalkInv(walk, graph),
           walk.visits # <<>>, \A m \in walk.seen : Leads(graph, entry, m)
    PROVE  \A m \in Turn(walk, graph).seen : Leads(graph, entry, m)
<1>1. walk \in Walks
  BY DEF WalkInv
<1>2. CASE Innermost(walk).left = <<>>
  <2>1. Turn(walk, graph).seen = walk.seen
    BY <1>1, <1>2, PlaceTurn
  <2> QED BY <2>1
<1>3. CASE Innermost(walk).left # <<>>
  <2>1. PICK n : n = Len(walk.visits)
    OBVIOUS
  <2>2. PICK m : m = walk.visits[n].module
    OBVIOUS
  <2>3. PICK left : left = walk.visits[n].left
    OBVIOUS
  <2>4. /\ Turn(walk, graph).seen = walk.seen \cup {Head(left)}
        /\ n \in Nat \ {0} /\ walk.visits[n] \in Visits /\ Head(left) \in Modules
    BY <1>1, <1>3, <2>1, <2>3, FollowTurn
  <2>5. n \in DOMAIN walk.visits
    BY <1>1, <2>1, <2>4 DEF Walks
  <2>6. m \in Modules /\ left \in Seq(Modules) /\ left # <<>>
    BY <1>3, <2>1, <2>2, <2>3, <2>4 DEF Visits, Innermost
  <2>7. m \in walk.seen
    BY <2>2, <2>5, <2>6 DEF WalkInv, SeenOnce, Visiting
  <2>8. Head(left) \in Range(left)
    BY <2>6 DEF Range
  <2>9. Head(left) \in Range(graph[m])
    BY <2>2, <2>3, <2>5, <2>8 DEF WalkInv, VisitsFollow
  <2>10. Leads(graph, entry, Head(left))
    BY <2>4, <2>6, <2>7, <2>9, LeadsOn
  <2> QED BY <2>4, <2>10
<1> QED BY <1>2, <1>3

LEMMA WalkRuns ==
    ASSUME NEW graph \in Graphs, NEW entry \in Modules, NEW n \in Nat
    PROVE  LET walk == Walk(graph, entry)[n]
           IN  /\ WalkInv(walk, graph) /\ entry \in walk.seen
               /\ \A m \in walk.seen : Leads(graph, entry, m)
               /\ walk.visits # <<>> => n <= Cardinality(Spent(walk))
<1> DEFINE w == Walk(graph, entry)
           C == {i \in Nat : /\ WalkInv(w[i], graph) /\ entry \in w[i].seen
                             /\ \A m \in w[i].seen : Leads(graph, entry, m)
                             /\ w[i].visits # <<>> => i <= Cardinality(Spent(w[i]))}
<1>1. w[0] = Enter(Setout, graph, entry) /\ \A i \in Nat : w[i + 1] = Turn(w[i], graph)
  BY WalkTurns
<1> HIDE DEF w
<1>2. 0 \in C
  <2>1. Cardinality(Spent(w[0])) \in Nat
    BY SpentIsBounded
  <2> QED BY <1>1, <2>1, WalkStarts, LeadsToItself
<1>3. ASSUME NEW i \in Nat, i \in C PROVE i + 1 \in C
  <2>1. w[i + 1] = Turn(w[i], graph) /\ i + 1 \in Nat
    BY <1>1
  <2>2. CASE w[i].visits = <<>>
    <3>1. w[i + 1] = w[i]
      BY <2>1, <2>2 DEF Turn
    <3> QED BY <1>3, <2>1, <2>2, <3>1
  <2>3. CASE w[i].visits # <<>>
    <3>1. /\ i <= Cardinality(Spent(w[i])) /\ WalkInv(w[i], graph) /\ entry \in w[i].seen
          /\ \A m \in w[i].seen : Leads(graph, entry, m)
      BY <1>3, <2>3
    <3>2. /\ WalkInv(w[i + 1], graph) /\ w[i].seen \subseteq w[i + 1].seen
          /\ Cardinality(Spent(w[i])) + 1 <= Cardinality(Spent(w[i + 1]))
      BY <2>1, <2>3, <3>1, TurnSpends
    <3>3. Cardinality(Spent(w[i])) \in Nat /\ Cardinality(Spent(w[i + 1])) \in Nat
      BY SpentIsBounded
    <3>4. i + 1 <= Cardinality(Spent(w[i + 1]))
      BY <3>1, <3>2, <3>3
    <3>5. \A m \in w[i + 1].seen : Leads(graph, entry, m)
      BY <2>1, <2>3, <3>1, SeesWhatIsLedTo
    <3> QED BY <2>1, <3>1, <3>2, <3>4, <3>5
  <2> QED BY <2>2, <2>3
<1> HIDE DEF C
<1>4. \A i \in Nat : i \in C
  BY <1>2, <1>3, Induction
<1>5. n \in C
  BY <1>4
<1> QED BY <1>5 DEF C, w

(* The turns counted are enough: the walk is over.                         *)
LEMMA WalkEnds ==
    ASSUME NEW graph \in Graphs, NEW entry \in Modules
    PROVE  LET walk == Walk(graph, entry)[Turns]
           IN  /\ WalkInv(walk, graph) /\ entry \in walk.seen /\ walk.visits = <<>>
               /\ \A m \in walk.seen : Leads(graph, entry, m)
<1> DEFINE walk == Walk(graph, entry)[Turns]
<1>1. Turns \in Nat
  BY SpentIsBounded
<1>2. /\ WalkInv(walk, graph) /\ entry \in walk.seen
      /\ \A m \in walk.seen : Leads(graph, entry, m)
      /\ walk.visits # <<>> => Turns <= Cardinality(Spent(walk))
  BY <1>1, WalkRuns
<1> HIDE DEF walk
<1>3. walk.visits # <<>> => Cardinality(Spent(walk)) < Turns
  BY <1>2, TurnSpends
<1>4. Cardinality(Spent(walk)) \in Nat
  BY SpentIsBounded
<1> QED BY <1>1, <1>2, <1>3, <1>4 DEF walk

(* What an order is, of every graph: what the entry leads to and nothing   *)
(* else, each module once, and behind every module it requests that does   *)
(* not lead back to it (visit, vm/module.rs).                              *)
THEOREM OrderIsPostOrder ==
    ASSUME NEW graph \in Graphs, NEW entry \in Modules
    PROVE  LET order == Orders[graph][entry]
           IN  /\ order \in Seq(Modules)
               /\ Range(order) = {m \in Modules : Leads(graph, entry, m)}
               /\ \A i, j \in DOMAIN order : order[i] = order[j] => i = j
               /\ \A k \in DOMAIN order : \A d \in Range(graph[order[k]]) :
                     Leads(graph, d, order[k]) \/ \E j \in 1 .. k - 1 : order[j] = d
<1> DEFINE walk == Walk(graph, entry)[Turns]
           order == walk.order
<1>1. /\ WalkInv(walk, graph) /\ entry \in walk.seen /\ walk.visits = <<>>
      /\ \A m \in walk.seen : Leads(graph, entry, m)
  BY WalkEnds
<1>2. Orders[graph][entry] = order
  BY DEF Orders
<1> HIDE DEF walk
<1>3. walk \in Walks /\ order \in Seq(Modules) /\ walk.seen \subseteq Modules
  BY <1>1 DEF WalkInv, Walks
<1>4. \A x : ~Visiting(walk, x)
  BY <1>1 DEF Visiting
<1>5. \A x : Placed(walk, x) <=> x \in Range(order)
  BY DEF Placed, Range
<1>6. Range(order) \subseteq Modules
  BY <1>3 DEF Range
<1>7. Range(order) = walk.seen
  BY <1>1, <1>3, <1>4, <1>5, <1>6 DEF WalkInv, SeenOnce
<1>8. Closed(graph, Range(order))
  <2> SUFFICES ASSUME NEW k \in DOMAIN order
               PROVE  Range(graph[order[k]]) \subseteq Range(order)
    BY DEF Closed, Range
  <2> QED BY <1>1, <1>7 DEF WalkInv, PlacedAfter
<1>9. Range(order) = {m \in Modules : Leads(graph, entry, m)}
  BY <1>1, <1>6, <1>7, <1>8 DEF Leads
<1>10. \A i, j \in DOMAIN order : order[i] = order[j] => i = j
  BY <1>1 DEF WalkInv, SeenOnce
<1>11. ASSUME NEW k \in DOMAIN order, NEW d \in Range(graph[order[k]])
       PROVE  Leads(graph, d, order[k]) \/ \E j \in 1 .. k - 1 : order[j] = d
  <2>1. \/ \E j \in DOMAIN order : j < k /\ order[j] = d
        \/ Leads(graph, d, order[k])
    BY <1>1, <1>11 DEF WalkInv, PlacedAfter
  <2>2. \A j \in DOMAIN order : j < k => j \in 1 .. k - 1
    BY <1>3, <1>11
  <2> QED BY <2>1, <2>2
<1> HIDE DEF order
<1> QED BY <1>2, <1>3, <1>9, <1>10, <1>11

-----------------------------------------------------------------------------
(* The inductive invariant.                                                *)

(* The calls in progress, and what the queue and the list of import()      *)
(* promises hold.                                                          *)
Results == {"value", "interrupted"} \cup Modules
Evaluations == [kind : {"evaluate"}, order : Seq(Modules), asker : Nat,
                current : Modules \cup {NoModule}, result : Results]
Bodies == [kind : {"body"}, module : Modules]
Waits == [kind : {"wait"}, module : Modules]
Drains == [kind : {"drain"}, result : Results \cup {"none"}]
Resumptions == [kind : {"resume"}, module : Modules]
ImportJobs == [kind : {"import"}, id : Nat \ {0}]
Answers == {"pending", "namespace", "refused"} \cup Modules

CallRecords == Evaluations \cup Bodies \cup Waits \cup Drains
BodyStates == {"idle", "running", "parked", "done", "threw", "stopped"}

Typed ==
    /\ requests \in Graphs
    /\ record \in [Modules -> [evaluated : BOOLEAN, failed : BOOLEAN]]
    /\ body \in [Modules -> BodyStates]
    /\ parked \in [Modules -> [on : {"nothing", "job", "other", "import"}, id : Nat]]
    /\ calls \in Seq(CallRecords)
    /\ queue \in Seq(Resumptions \cup ImportJobs)
    /\ imports \in Seq([module : Modules, by : Modules, answer : Answers])
    /\ stopped \in BOOLEAN
    /\ outcome \in {"none", "value", "interrupted", "unlinked"} \cup Modules
    /\ runs \in 0 .. MaxRuns
    /\ awaits \in 0 .. MaxAwaits

(* A parked body waits for something, a running one is the call on top.    *)
BodiesFit ==
    \A m \in Modules :
       /\ parked[m] \in {Nothing, Queued, Another} \cup {OnImport(i) : i \in DOMAIN imports}
       /\ parked[m] # Nothing <=> body[m] = "parked"
       /\ body[m] = "running" <=> Running(m)
       /\ body[m] = "parked" => m \in Async

Is(k, kind) == k \in DOMAIN calls /\ calls[k].kind = kind

(* What each call was made by: an evaluation by the host or by a job, a    *)
(* body by its evaluation, by the wait for it or by a job, a drain by an   *)
(* evaluation whose body is over or by a wait.                             *)
EvaluationFits(k) ==
    /\ k = 1 \/ Is(k - 1, "drain")
    /\ calls[k].asker = 0 <=> k = 1
    /\ calls[k].result \in Modules => k = Len(calls) /\ calls[k].result = calls[k].current
    /\ k < Len(calls) => calls[k].current \in Modules
BodyFits(k) ==
    /\ k = Len(calls)
    /\ LET m == calls[k].module
       IN  \/ m \notin Async /\ Is(k - 1, "evaluate") /\ calls[k - 1].current = m
           \/ m \in Async /\ Is(k - 1, "wait") /\ calls[k - 1].module = m
           \/ m \in Async /\ Is(k - 1, "drain")
WaitFits(k) ==
    /\ calls[k].module \in Async
    /\ Is(k - 1, "evaluate") /\ calls[k - 1].current = calls[k].module
DrainFits(k) ==
    LET result == calls[k].result
    IN  \/ result = "none" /\ Is(k - 1, "wait")
        \/ /\ result # "none" /\ Is(k - 1, "evaluate")
           /\ result \in Modules => result = calls[k - 1].current
Fits(k) ==
    /\ calls[k].kind = "evaluate" => EvaluationFits(k)
    /\ calls[k].kind = "body" => BodyFits(k)
    /\ calls[k].kind = "wait" => WaitFits(k)
    /\ calls[k].kind = "drain" => DrainFits(k)
CallsFit == \A k \in DOMAIN calls : Fits(k)

(* A module's record says whether its body has begun.                      *)
Begun == \A m \in Modules : record[m].evaluated <=> body[m] # "idle"

(* No job is queued twice; a resumption is owed to a body whose await is   *)
(* over, an import() whose job is queued or running is unanswered.         *)
Distinct(q) == \A i, j \in DOMAIN q : q[i] = q[j] => i = j
JobsFit ==
    /\ Distinct(queue)
    /\ \A job \in Range(queue) :
          /\ job.kind = "resume" => parked[job.module] = Queued
          /\ job.kind = "import" => job.id \in DOMAIN imports /\ Pending(job.id)
AskersFit ==
    \A k \in DOMAIN calls :
       calls[k].kind = "evaluate" /\ calls[k].asker # 0 =>
          /\ calls[k].asker \in DOMAIN imports /\ Pending(calls[k].asker)
          /\ Import(calls[k].asker) \notin Range(queue)
          /\ \A j \in DOMAIN calls :
                calls[j].kind = "evaluate" /\ calls[j].asker = calls[k].asker => j = k

(* Evaluation k is n modules into the order of entry: those have begun,    *)
(* none of them has failed, and no evaluation above it began one of them.  *)
Into(k, entry, n) ==
    LET order == Order(entry)
    IN  /\ calls[k].asker # 0 => imports[calls[k].asker].module = entry
        /\ calls[k].order = SubSeq(order, n + 1, Len(order))
        /\ calls[k].current \in Modules => \E i \in 1 .. n : order[i] = calls[k].current
        /\ \A i \in 1 .. n :
              /\ record[order[i]].evaluated /\ ~record[order[i]].failed
              /\ \A j \in DOMAIN calls :
                    j > k /\ calls[j].kind = "evaluate" => calls[j].current # order[i]
EvaluationsFit ==
    \A k \in DOMAIN calls : calls[k].kind = "evaluate" =>
       \E entry \in Modules : \E n \in 0 .. Len(Order(entry)) : Into(k, entry, n)

GraphInv ==
    /\ Typed /\ BodiesFit /\ CallsFit /\ Begun
    /\ JobsFit /\ AskersFit /\ EvaluationsFit

-----------------------------------------------------------------------------
(* Sequences.                                                              *)

LEMMA TopOf ==
    ASSUME NEW S, NEW s \in Seq(S), s # <<>>
    PROVE  /\ Len(s) \in Nat \ {0} /\ Len(s) \in DOMAIN s /\ DOMAIN s = 1 .. Len(s)
           /\ Last(s) = s[Len(s)] /\ Last(s) \in S
           /\ Front(s) \in Seq(S) /\ Len(Front(s)) = Len(s) - 1
           /\ \A k \in 1 .. Len(s) - 1 : Front(s)[k] = s[k]
<1>1. Len(s) \in Nat \ {0} /\ Len(s) \in DOMAIN s /\ DOMAIN s = 1 .. Len(s)
  OBVIOUS
<1>2. s[Len(s)] \in S
  BY <1>1, ElementOfSeq
<1>3. /\ SubSeq(s, 1, Len(s) - 1) \in Seq(S) /\ Len(SubSeq(s, 1, Len(s) - 1)) = Len(s) - 1
      /\ \A k \in 1 .. Len(s) - 1 : SubSeq(s, 1, Len(s) - 1)[k] = s[k]
  BY <1>1
<1> QED BY <1>1, <1>2, <1>3 DEF Front, Last

LEMMA PushedOn ==
    ASSUME NEW S, NEW s \in Seq(S), NEW x \in S
    PROVE  /\ Append(s, x) \in Seq(S) /\ Len(Append(s, x)) = Len(s) + 1
           /\ Len(s) \in Nat /\ DOMAIN Append(s, x) = 1 .. Len(s) + 1
           /\ \A k \in 1 .. Len(s) : Append(s, x)[k] = s[k]
           /\ Append(s, x)[Len(s) + 1] = x
OBVIOUS

LEMMA TopReplaced ==
    ASSUME NEW S, NEW s \in Seq(S), s # <<>>, NEW x \in S
    PROVE  LET t == Append(Front(s), x)
           IN  /\ t \in Seq(S) /\ Len(t) = Len(s) /\ DOMAIN t = 1 .. Len(s)
               /\ t # <<>> /\ Last(t) = x
               /\ \A k \in 1 .. Len(s) - 1 : t[k] = s[k]
               /\ t[Len(s)] = x
<1>1. /\ Len(s) \in Nat \ {0} /\ Front(s) \in Seq(S) /\ Len(Front(s)) = Len(s) - 1
      /\ \A k \in 1 .. Len(s) - 1 : Front(s)[k] = s[k]
  BY TopOf
<1> DEFINE f == Front(s)
           t == Append(f, x)
<1>2. /\ t \in Seq(S) /\ Len(t) = Len(f) + 1
      /\ \A k \in 1 .. Len(f) : t[k] = f[k]
      /\ t[Len(f) + 1] = x
  BY <1>1, PushedOn
<1> HIDE DEF t, f
<1>3. Len(f) = Len(s) - 1 /\ Len(f) + 1 = Len(s)
  BY <1>1 DEF f
<1>4. t # <<>> /\ Len(t) = Len(s) /\ DOMAIN t = 1 .. Len(s)
  BY <1>1, <1>2, <1>3
<1>5. Last(t) = x
  BY <1>2, <1>3, <1>4 DEF Last
<1> QED BY <1>1, <1>2, <1>3, <1>4, <1>5 DEF t, f

LEMMA Enqueued ==
    ASSUME NEW S, NEW q \in Seq(S), Distinct(q), NEW x \in S, x \notin Range(q)
    PROVE  /\ Append(q, x) \in Seq(S) /\ Distinct(Append(q, x))
           /\ Range(Append(q, x)) = Range(q) \cup {x}
<1> DEFINE t == Append(q, x)
<1>1. /\ t \in Seq(S) /\ DOMAIN t = 1 .. Len(q) + 1 /\ Len(q) \in Nat /\ DOMAIN q = 1 .. Len(q)
      /\ \A k \in 1 .. Len(q) : t[k] = q[k]
      /\ t[Len(q) + 1] = x
  BY PushedOn
<1> HIDE DEF t
<1>2. DOMAIN t = DOMAIN q \cup {Len(q) + 1}
  BY <1>1
<1>3. Range(t) = Range(q) \cup {x}
  BY <1>1, <1>2 DEF Range
<1>4. \A k \in DOMAIN q : q[k] # x
  BY DEF Range
<1>5. Distinct(t)
  BY <1>1, <1>2, <1>4 DEF Distinct
<1> QED BY <1>1, <1>3, <1>5 DEF t

LEMMA Dequeued ==
    ASSUME NEW S, NEW q \in Seq(S), Distinct(q), q # <<>>
    PROVE  /\ Head(q) \in S /\ Head(q) \in Range(q)
           /\ Tail(q) \in Seq(S) /\ Distinct(Tail(q)) /\ Tail(q) # q
           /\ Range(Tail(q)) = Range(q) \ {Head(q)}
<1> DEFINE n == Len(q)
           t == Tail(q)
<1>1. Head(q) = q[1] /\ Head(q) \in S /\ 1 \in DOMAIN q /\ n \in Nat \ {0} /\ DOMAIN q = 1 .. n
  OBVIOUS
<1>2. t \in Seq(S) /\ DOMAIN t = 1 .. n - 1
  OBVIOUS
<1>3. \A k \in 1 .. n - 1 : t[k] = q[k + 1]
  BY <1>1
<1>4. t # q
  <2> HIDE DEF n, t
  <2>1. n \in 1 .. n /\ n \notin 1 .. n - 1
    BY <1>1
  <2> QED BY <1>1, <1>2, <2>1
<1> HIDE DEF n, t
<1>5. \A k \in 1 .. n - 1 : k + 1 \in DOMAIN q /\ k + 1 # 1
  BY <1>1
<1>6. Distinct(t)
  <2> SUFFICES ASSUME NEW i \in 1 .. n - 1, NEW j \in 1 .. n - 1, t[i] = t[j] PROVE i = j
    BY <1>2 DEF Distinct
  <2>1. i + 1 = j + 1
    BY <1>3, <1>5 DEF Distinct
  <2> QED BY <2>1
<1>7. \A k \in 1 .. n - 1 : t[k] \in Range(q) /\ t[k] # Head(q)
  <2> TAKE k \in 1 .. n - 1
  <2>1. k + 1 \in DOMAIN q /\ k + 1 # 1 /\ t[k] = q[k + 1]
    BY ONLY <1>3, <1>5
  <2>2. q[k + 1] \in Range(q)
    BY ONLY <2>1 DEF Range
  <2>3. q[k + 1] # q[1]
    BY ONLY <1>1, <2>1, Distinct(q) DEF Distinct
  <2> QED BY ONLY <1>1, <2>1, <2>2, <2>3
<1>8. ASSUME NEW k \in DOMAIN q, q[k] # Head(q) PROVE q[k] \in Range(t)
  <2>1. k # 1 /\ k - 1 \in 1 .. n - 1 /\ (k - 1) + 1 = k
    BY <1>1, <1>8
  <2>2. t[k - 1] = q[k]
    BY <1>3, <2>1
  <2> QED BY <1>2, <2>1, <2>2 DEF Range
<1>9. Range(t) = Range(q) \ {Head(q)}
  BY <1>2, <1>7, <1>8 DEF Range
<1>10. Head(q) \in Range(q)
  BY <1>1 DEF Range
<1> QED BY <1>1, <1>2, <1>4, <1>6, <1>9, <1>10 DEF t

-----------------------------------------------------------------------------
(* What the invariant gives.                                               *)

LEMMA KindsOfCalls ==
    ASSUME NEW c \in CallRecords
    PROVE  /\ c.kind \in {"evaluate", "body", "wait", "drain"}
           /\ c.kind = "evaluate" => c \in Evaluations
           /\ c.kind = "body" => c \in Bodies /\ c = Body(c.module)
           /\ c.kind = "wait" => c \in Waits /\ c = Waiting(c.module)
           /\ c.kind = "drain" => c \in Drains /\ c = Draining(c.result)
BY DEF CallRecords, Evaluations, Bodies, Waits, Drains, Body, Waiting, Draining

LEMMA CallTypes ==
    /\ \A order \in Seq(Modules), asker \in Nat :
          /\ Evaluation(order, asker) \in Evaluations
          /\ Evaluation(order, asker) \in CallRecords
    /\ \A m \in Modules : /\ Body(m) \in Bodies /\ Body(m) \in CallRecords
                          /\ Waiting(m) \in Waits /\ Waiting(m) \in CallRecords
    /\ \A r \in Results \cup {"none"} : Draining(r) \in Drains /\ Draining(r) \in CallRecords
BY DEF CallRecords, Evaluations, Bodies, Waits, Drains, Body, Waiting, Draining, Evaluation, Results

LEMMA CallAt ==
    ASSUME Typed, NEW k \in DOMAIN calls
    PROVE  /\ k \in 1 .. Len(calls) /\ k \in Nat \ {0} /\ Len(calls) \in Nat
           /\ DOMAIN calls = 1 .. Len(calls)
           /\ calls[k] \in CallRecords
<1>1. calls \in Seq(CallRecords)
  BY DEF Typed
<1>2. Len(calls) \in Nat /\ DOMAIN calls = 1 .. Len(calls)
  BY <1>1
<1> QED BY <1>1, <1>2, ElementOfSeq

LEMMA OnTop ==
    ASSUME Typed, NEW kind, InCall(kind)
    PROVE  /\ Len(calls) \in Nat \ {0} /\ Len(calls) \in DOMAIN calls
           /\ DOMAIN calls = 1 .. Len(calls)
           /\ calls \in Seq(CallRecords) /\ calls # <<>>
           /\ Top = calls[Len(calls)] /\ Top \in CallRecords /\ Top.kind = kind
BY TopOf DEF Typed, InCall, Top

LEMMA OrderOf ==
    ASSUME Typed, NEW entry \in Modules
    PROVE  /\ Order(entry) \in Seq(Modules) /\ Len(Order(entry)) \in Nat
           /\ DOMAIN Order(entry) = 1 .. Len(Order(entry))
           /\ \A i \in DOMAIN Order(entry) : Order(entry)[i] \in Modules
           /\ Reached(entry) = {Order(entry)[i] : i \in DOMAIN Order(entry)}
           /\ \A k \in DOMAIN Order(entry) : \A d \in Modules :
                 DependsOn(Order(entry)[k], d) =>
                    \E j \in 1 .. k - 1 : Order(entry)[j] = d
<1>1. requests \in Graphs
  BY DEF Typed
<1>2. /\ Order(entry) \in Seq(Modules)
      /\ \A k \in DOMAIN Order(entry) : \A d \in Range(requests[Order(entry)[k]]) :
            \/ Leads(requests, d, Order(entry)[k])
            \/ \E j \in 1 .. k - 1 : Order(entry)[j] = d
  BY <1>1, OrderIsPostOrder DEF Order
<1>3. /\ Len(Order(entry)) \in Nat /\ DOMAIN Order(entry) = 1 .. Len(Order(entry))
      /\ \A i \in DOMAIN Order(entry) : Order(entry)[i] \in Modules
  BY <1>2, ElementOfSeq
<1>4. \A d \in Modules : Reached(d) = {m \in Modules : Leads(requests, d, m)}
  BY <1>1, OrderIsPostOrder DEF Order, Reached
<1>5. ASSUME NEW k \in DOMAIN Order(entry), NEW d \in Modules, DependsOn(Order(entry)[k], d)
      PROVE  \E j \in 1 .. k - 1 : Order(entry)[j] = d
  <2>1. /\ d \in Range(requests[Order(entry)[k]])
        /\ ~Leads(requests, d, Order(entry)[k])
    BY <1>3, <1>4, <1>5 DEF DependsOn
  <2> QED BY <1>2, <2>1
<1> QED BY <1>2, <1>3, <1>5 DEF Reached, Range

(* Typing of the jobs.                                                     *)
LEMMA JobKinds ==
    ASSUME NEW job \in Resumptions \cup ImportJobs
    PROVE  /\ job.kind \in {"resume", "import"}
           /\ job.kind = "resume" => job.module \in Modules /\ job = Resume(job.module)
           /\ job.kind = "import" => job.id \in Nat \ {0} /\ job = Import(job.id)
BY DEF Resumptions, ImportJobs, Resume, Import

LEMMA JobsAre ==
    ASSUME Typed
    PROVE  /\ \A job \in Range(queue) : job \in Resumptions \cup ImportJobs
           /\ \A i \in DOMAIN imports :
                 i \in Nat \ {0} /\ imports[i] \in [module : Modules, by : Modules, answer : Answers]
<1>1. /\ queue \in Seq(Resumptions \cup ImportJobs)
      /\ imports \in Seq([module : Modules, by : Modules, answer : Answers])
  BY DEF Typed
<1>2. \A i \in DOMAIN queue : queue[i] \in Resumptions \cup ImportJobs
  <2>1. DOMAIN queue = 1 .. Len(queue)
    BY <1>1
  <2> QED BY <1>1, <2>1, ElementOfSeq
<1>3. \A i \in DOMAIN imports : imports[i] \in [module : Modules, by : Modules, answer : Answers]
  <2>1. DOMAIN imports = 1 .. Len(imports)
    BY <1>1
  <2> QED BY <1>1, <2>1, ElementOfSeq
<1>4. \A i \in DOMAIN imports : i \in Nat \ {0}
  BY <1>1
<1> QED BY <1>2, <1>3, <1>4 DEF Range

LEMMA JobTypes ==
    /\ \A m \in Modules : /\ Resume(m) \in Resumptions \cup ImportJobs
                          /\ Resume(m).kind = "resume" /\ Resume(m).module = m
    /\ \A i \in Nat \ {0} : /\ Import(i) \in Resumptions \cup ImportJobs
                            /\ Import(i).kind = "import" /\ Import(i).id = i
    /\ \A m \in Modules : \A i : Resume(m) # Import(i)
BY DEF Resumptions, ImportJobs, Resume, Import

LEMMA WaitTypes ==
    /\ Nothing.on = "nothing" /\ Queued.on = "job" /\ Another.on = "other"
    /\ \A i : OnImport(i).on = "import" /\ OnImport(i).id = i
    /\ Nothing # Queued /\ Nothing # Another /\ Queued # Another
    /\ \A i : OnImport(i) # Nothing /\ OnImport(i) # Queued /\ OnImport(i) # Another
    /\ \A i, j : OnImport(i) = OnImport(j) => i = j
    /\ \A i \in Nat : {Nothing, Queued, Another, OnImport(i)}
          \subseteq [on : {"nothing", "job", "other", "import"}, id : Nat]
BY DEF Nothing, Queued, Another, OnImport, Wait

-----------------------------------------------------------------------------
(* Evaluations an action does not touch.                                   *)

Alike(k) ==
    /\ k \in DOMAIN calls /\ calls[k].kind = "evaluate"
    /\ calls'[k].order = calls[k].order
    /\ calls'[k].asker = calls[k].asker
    /\ calls'[k].current = calls[k].current
SameCurrent(k) ==
    /\ k \in DOMAIN calls /\ calls[k].kind = "evaluate"
    /\ calls'[k].current = calls[k].current
ImportsGrow ==
    \A i \in DOMAIN imports :
       i \in DOMAIN imports' /\ imports'[i].module = imports[i].module

LEMMA StillInto ==
    ASSUME Typed, AskersFit, requests' = requests, ImportsGrow,
           NEW k, Alike(k),
           NEW entry \in Modules, NEW n \in 0 .. Len(Order(entry)), Into(k, entry, n),
           \A m \in Modules : record[m].evaluated => record'[m].evaluated,
           \A m \in Modules : record'[m].failed /\ ~record[m].failed =>
              \E j \in DOMAIN calls :
                 j > k /\ calls[j].kind = "evaluate" /\ calls[j].current = m,
           \A j \in DOMAIN calls' : j > k /\ calls'[j].kind = "evaluate" =>
              \/ SameCurrent(j)
              \/ calls'[j].current \notin Modules
              \/ calls'[j].current \in Modules /\ ~record[calls'[j].current].evaluated
    PROVE  n \in 0 .. Len(Order(entry)') /\ Into(k, entry, n)'
<1>1. Order(entry)' = Order(entry)
  BY DEF Order
<1>2. /\ Order(entry) \in Seq(Modules)
      /\ \A i \in 1 .. Len(Order(entry)) : Order(entry)[i] \in Modules
  BY OrderOf
<1> DEFINE order == Order(entry)
<1> HIDE DEF order
<1>3. /\ calls[k].asker # 0 => imports[calls[k].asker].module = entry
      /\ calls[k].order = SubSeq(order, n + 1, Len(order))
      /\ calls[k].current \in Modules => \E i \in 1 .. n : order[i] = calls[k].current
      /\ \A i \in 1 .. n :
            /\ record[order[i]].evaluated /\ ~record[order[i]].failed
            /\ \A j \in DOMAIN calls :
                  j > k /\ calls[j].kind = "evaluate" => calls[j].current # order[i]
  BY DEF Into, order
<1>4. \A i \in 1 .. n : order[i] \in Modules
  BY <1>2 DEF order
<1>5. calls'[k].asker # 0 => imports'[calls'[k].asker].module = entry
  BY <1>3 DEF Alike, AskersFit, ImportsGrow
<1>6. \A i \in 1 .. n : record'[order[i]].evaluated /\ ~record'[order[i]].failed
  BY <1>3, <1>4
<1>7. ASSUME NEW i \in 1 .. n, NEW j \in DOMAIN calls', j > k, calls'[j].kind = "evaluate"
      PROVE  calls'[j].current # order[i]
  <2>1. order[i] \in Modules /\ record[order[i]].evaluated
    BY ONLY <1>3, <1>4
  <2>2. \/ SameCurrent(j)
        \/ calls'[j].current \notin Modules
        \/ calls'[j].current \in Modules /\ ~record[calls'[j].current].evaluated
    BY <1>7
  <2>3. CASE SameCurrent(j)
    <3>1. /\ j \in DOMAIN calls /\ calls[j].kind = "evaluate"
          /\ calls'[j].current = calls[j].current
      BY ONLY <2>3 DEF SameCurrent
    <3> QED BY ONLY <1>3, <1>7, <3>1
  <2> QED BY ONLY <2>1, <2>2, <2>3
<1>8. /\ calls'[k].order = SubSeq(order, n + 1, Len(order))
      /\ calls'[k].current \in Modules => \E i \in 1 .. n : order[i] = calls'[k].current
  BY <1>3 DEF Alike
<1>9. n \in 0 .. Len(order)
  BY DEF order
<1> QED BY <1>1, <1>5, <1>6, <1>7, <1>8, <1>9 DEF Into, order

(* When no record changes and no evaluation moves.                         *)
LEMMA EvaluationsStay ==
    ASSUME Typed, AskersFit, EvaluationsFit, requests' = requests, record' = record,
           ImportsGrow,
           \A k \in DOMAIN calls' : calls'[k].kind = "evaluate" => Alike(k)
    PROVE  EvaluationsFit'
<1> SUFFICES ASSUME NEW k \in DOMAIN calls', calls'[k].kind = "evaluate"
             PROVE  \E entry \in Modules : \E n \in 0 .. Len(Order(entry)') : Into(k, entry, n)'
  BY DEF EvaluationsFit
<1>1. Alike(k)
  OBVIOUS
<1>2. PICK entry \in Modules : \E n \in 0 .. Len(Order(entry)) : Into(k, entry, n)
  BY <1>1 DEF EvaluationsFit, Alike
<1>3. PICK n \in 0 .. Len(Order(entry)) : Into(k, entry, n)
  BY <1>2
<1>4. n \in 0 .. Len(Order(entry)') /\ Into(k, entry, n)'
  <2>1. \A j \in DOMAIN calls' : calls'[j].kind = "evaluate" => SameCurrent(j)
    BY DEF Alike, SameCurrent
  <2> QED BY <1>1, <1>3, <2>1, StillInto
<1> QED BY <1>4

(* Askers, when no evaluation is made: what an asker asks for is still     *)
(* unanswered, and no job is queued for it.                                *)
LEMMA AskersStay ==
    ASSUME AskersFit,
           \A k \in DOMAIN calls' : calls'[k].kind = "evaluate" => Alike(k),
           \A k \in DOMAIN calls' : calls'[k].kind = "evaluate" /\ calls[k].asker # 0 =>
              calls[k].asker \in DOMAIN imports' /\ imports'[calls[k].asker].answer = "pending",
           \A job \in Range(queue') :
              job \in Range(queue) \/ job.kind = "resume" \/ job.id \notin DOMAIN imports
    PROVE  AskersFit'
<1> SUFFICES ASSUME NEW k \in DOMAIN calls', calls'[k].kind = "evaluate", calls'[k].asker # 0
             PROVE  /\ calls'[k].asker \in DOMAIN imports' /\ imports'[calls'[k].asker].answer = "pending"
                    /\ Import(calls'[k].asker) \notin Range(queue')
                    /\ \A j \in DOMAIN calls' :
                          calls'[j].kind = "evaluate" /\ calls'[j].asker = calls'[k].asker => j = k
  BY DEF AskersFit, Pending, Import
<1>1. Alike(k) /\ calls[k].asker # 0 /\ calls'[k].asker = calls[k].asker
  BY DEF Alike
<1>2. /\ calls[k].asker \in DOMAIN imports
      /\ Import(calls[k].asker) \notin Range(queue)
      /\ \A j \in DOMAIN calls :
            calls[j].kind = "evaluate" /\ calls[j].asker = calls[k].asker => j = k
  BY <1>1 DEF AskersFit, Alike
<1>3. Import(calls[k].asker) \notin Range(queue')
  BY <1>2 DEF Import
<1>4. \A j \in DOMAIN calls' :
         calls'[j].kind = "evaluate" /\ calls'[j].asker = calls'[k].asker => j = k
  <2> SUFFICES ASSUME NEW j \in DOMAIN calls', calls'[j].kind = "evaluate",
                      calls'[j].asker = calls'[k].asker
               PROVE  j = k
    OBVIOUS
  <2>1. /\ j \in DOMAIN calls /\ calls[j].kind = "evaluate"
        /\ calls'[j].asker = calls[j].asker
    BY DEF Alike
  <2>2. calls[j].asker = calls[k].asker
    BY <1>1, <2>1
  <2> QED BY ONLY <1>2, <2>1, <2>2
<1> QED BY <1>1, <1>3, <1>4

(* Calls below the top, where nothing changes.                             *)
LEMMA BelowFits ==
    ASSUME Typed, CallsFit, NEW j \in Nat,
           calls' \in Seq(CallRecords),
           \A i \in 1 .. j : i \in DOMAIN calls /\ calls'[i] = calls[i],
           NEW k \in 1 .. j, k < Len(calls), k < Len(calls')
    PROVE  Fits(k)'
<1>1. /\ DOMAIN calls = 1 .. Len(calls) /\ Len(calls) \in Nat
      /\ DOMAIN calls' = 1 .. Len(calls') /\ Len(calls') \in Nat
  BY DEF Typed
<1>2. Fits(k) /\ calls'[k] = calls[k] /\ k # Len(calls) /\ k # Len(calls')
  BY <1>1 DEF CallsFit
<1>3. \A kind : Is(k - 1, kind)' <=> Is(k - 1, kind)
  BY <1>1 DEF Is
<1>4. ASSUME Is(k - 1, "evaluate") \/ Is(k - 1, "wait") PROVE calls'[k - 1] = calls[k - 1]
  BY <1>1, <1>4 DEF Is
<1> QED BY <1>1, <1>2, <1>3, <1>4, Zenon
           DEF Fits, EvaluationFits, BodyFits, WaitFits, DrainFits

LEMMA TypesGive ==
    ASSUME GraphInv
    PROVE  TypeOK
<1>1. Typed /\ BodiesFit /\ CallsFit /\ JobsFit
  BY DEF GraphInv
<1>2. ASSUME NEW k \in DOMAIN calls
      PROVE  /\ calls[k].kind \in {"evaluate", "body", "wait", "drain"}
             /\ calls[k].kind = "body" => k = Len(calls)
  BY <1>1, CallAt, KindsOfCalls DEF CallsFit, Fits, BodyFits
<1>3. Range(queue) \subseteq {Resume(m) : m \in Modules}
                              \cup {Import(i) : i \in DOMAIN imports}
  <2>1. ASSUME NEW job \in Range(queue)
        PROVE  job \in {Resume(m) : m \in Modules} \cup {Import(j) : j \in DOMAIN imports}
    <3>1. job \in Resumptions \cup ImportJobs
      BY <1>1, JobsAre
    <3> QED BY <1>1, <3>1, JobKinds DEF JobsFit
  <2> QED BY <2>1
<1>4. \A i \in DOMAIN imports :
         imports[i].answer \in {"pending", "namespace", "refused"} \cup Modules
  <2>1. imports \in Seq([module : Modules, by : Modules, answer : Answers])
    BY <1>1 DEF Typed
  <2>2. \A i \in DOMAIN imports : imports[i] \in [module : Modules, by : Modules, answer : Answers]
    <3>1. DOMAIN imports = 1 .. Len(imports)
      BY <2>1
    <3> QED BY <2>1, <3>1, ElementOfSeq
  <2> QED BY <2>2 DEF Answers
<1> QED BY <1>1, <1>2, <1>3, <1>4 DEF Typed, BodiesFit, BodyStates, TypeOK

-----------------------------------------------------------------------------
(* The four things an action does to the calls: the top returns, a call is *)
(* made, a call takes the top's place, the top returns a result to the     *)
(* evaluation below it.                                                    *)

CallsChanged ==
    /\ calls' \in Seq(CallRecords) /\ CallsFit'
    /\ \A k \in DOMAIN calls' : calls'[k].kind = "evaluate" => Alike(k)

LEMMA NoBodyBelow ==
    ASSUME Typed, CallsFit, NEW k \in DOMAIN calls, k < Len(calls)
    PROVE  calls[k].kind # "body"
BY CallAt DEF CallsFit, Fits, BodyFits

LEMMA Popped ==
    ASSUME Typed, CallsFit, calls # <<>>, calls' = Front(calls)
    PROVE  /\ CallsChanged /\ ~InCall("body")'
           /\ Len(calls') = Len(calls) - 1
           /\ \A k \in 1 .. Len(calls) - 1 : calls'[k] = calls[k]
<1> DEFINE n == Len(calls)
<1>1. calls \in Seq(CallRecords)
  BY DEF Typed
<1>2. /\ n \in Nat \ {0} /\ DOMAIN calls = 1 .. n
      /\ calls' \in Seq(CallRecords) /\ Len(calls') = n - 1
      /\ \A k \in 1 .. n - 1 : calls'[k] = calls[k]
  BY <1>1, TopOf
<1>3. DOMAIN calls' = 1 .. n - 1
  BY <1>2
<1> HIDE DEF n
<1>4. \A i \in 1 .. n - 1 : i \in DOMAIN calls /\ calls'[i] = calls[i]
  BY <1>2
<1>5. ASSUME NEW k \in DOMAIN calls' PROVE Fits(k)'
  <2>1. k \in 1 .. n - 1 /\ n - 1 \in Nat /\ k < Len(calls) /\ k \in DOMAIN calls
    BY <1>2, <1>3 DEF n
  <2>2. CASE k < Len(calls')
    BY <1>2, <1>4, <2>1, <2>2, BelowFits
  <2>3. CASE k = n - 1
    <3>1. Fits(k) /\ calls'[k] = calls[k] /\ k # Len(calls) /\ k = Len(calls')
      <4>1. Fits(k) /\ calls'[k] = calls[k]
        BY <1>4, <2>1 DEF CallsFit
      <4>2. Len(calls') = n - 1 /\ k \in Nat /\ Len(calls) \in Nat
        BY <1>2, <2>1 DEF n
      <4> QED BY <2>1, <2>3, <4>1, <4>2
    <3>2. \A kind : Is(k - 1, kind)' <=> Is(k - 1, kind)
      BY <1>2, <1>3, <2>3 DEF Is
    <3>3. ASSUME Is(k - 1, "evaluate") \/ Is(k - 1, "wait") PROVE calls'[k - 1] = calls[k - 1]
      BY <1>2, <2>3, <3>3 DEF Is
    <3>4. calls[k].kind # "body"
      BY <2>1, NoBodyBelow
    <3> QED BY <2>1, <3>1, <3>2, <3>3, <3>4 DEF Fits, EvaluationFits, WaitFits, DrainFits
  <2> QED BY <1>2, <2>1, <2>2, <2>3
<1>6. \A k \in DOMAIN calls' : calls'[k].kind = "evaluate" => Alike(k)
  BY <1>3, <1>4 DEF Alike
<1>7. ~InCall("body")'
  <2>1. ASSUME calls' # <<>> PROVE Last(calls').kind # "body"
    <3>1. Last(calls') = calls'[n - 1] /\ n - 1 \in 1 .. n - 1
      BY <1>2, <2>1, TopOf
    <3> QED BY <1>2, <1>4, <3>1, NoBodyBelow DEF n
  <2> QED BY <2>1 DEF InCall
<1> QED BY <1>2, <1>5, <1>6, <1>7 DEF CallsChanged, CallsFit, n

LEMMA Pushed ==
    ASSUME Typed, CallsFit, NEW kind \in {"wait", "drain"}, InCall(kind),
           NEW c \in CallRecords, calls' = Append(calls, c),
           \/ \E m \in Async : c = Body(m) /\ kind = "drain"
           \/ c = Draining("none") /\ kind = "wait"
    PROVE  CallsChanged /\ Last(calls') = c /\ calls' # <<>>
<1> DEFINE n == Len(calls)
<1>1. /\ n \in Nat \ {0} /\ DOMAIN calls = 1 .. n /\ n \in DOMAIN calls
      /\ calls \in Seq(CallRecords) /\ calls[n].kind = kind
  BY OnTop
<1>2. /\ calls' \in Seq(CallRecords) /\ Len(calls') = n + 1
      /\ DOMAIN calls' = 1 .. n + 1
      /\ \A k \in 1 .. n : calls'[k] = calls[k]
      /\ calls'[n + 1] = c
  BY <1>1, PushedOn
<1> HIDE DEF n
<1>3. \A i \in 1 .. n : i \in DOMAIN calls /\ calls'[i] = calls[i]
  BY <1>1, <1>2
<1>4. ASSUME NEW k \in DOMAIN calls' PROVE Fits(k)'
  <2>1. CASE k < n
    <3>1. k \in 1 .. n /\ n \in Nat /\ k < Len(calls) /\ k < Len(calls')
      BY <1>1, <1>2, <2>1 DEF n
    <3> QED BY <1>2, <1>3, <3>1, BelowFits
  <2>2. CASE k = n
    <3>1. Fits(k) /\ calls'[k] = calls[k] /\ calls[k].kind = kind /\ kind \notin {"evaluate", "body"}
      BY <1>1, <1>2, <2>2 DEF CallsFit, n
    <3>2. \A x : Is(k - 1, x)' <=> Is(k - 1, x)
      BY <1>1, <1>2, <2>2 DEF Is
    <3>3. ASSUME Is(k - 1, "evaluate") \/ Is(k - 1, "wait") PROVE calls'[k - 1] = calls[k - 1]
      BY <1>1, <1>2, <2>2, <3>3 DEF Is
    <3> QED BY <2>2, <3>1, <3>2, <3>3 DEF Fits, WaitFits, DrainFits
  <2>3. CASE k = n + 1
    <3>1. calls'[k] = c /\ k - 1 = n /\ k = Len(calls') /\ Is(k - 1, kind)'
      BY <1>1, <1>2, <2>3 DEF Is
    <3>2. CASE \E m \in Async : c = Body(m) /\ kind = "drain"
      <4>1. PICK m \in Async : c = Body(m) /\ kind = "drain"
        BY <3>2
      <4>2. c.kind = "body" /\ c.module = m
        BY <4>1 DEF Body
      <4> QED BY <3>1, <4>1, <4>2 DEF Fits, BodyFits
    <3>3. CASE c = Draining("none") /\ kind = "wait"
      <4>1. c.kind = "drain" /\ c.result = "none"
        BY <3>3 DEF Draining
      <4> QED BY <3>1, <3>3, <4>1 DEF Fits, DrainFits
    <3> QED BY <3>2, <3>3
  <2> QED BY <1>1, <1>2, <2>1, <2>2, <2>3
<1>5. c.kind # "evaluate"
  BY DEF Body, Draining
<1>6. \A k \in DOMAIN calls' : calls'[k].kind = "evaluate" => Alike(k)
  <2>1. \A k \in DOMAIN calls' : k \in 1 .. n \/ k = n + 1
    BY <1>1, <1>2
  <2> QED BY <1>2, <1>3, <1>5, <2>1 DEF Alike
<1>7. Last(calls') = c /\ calls' # <<>>
  BY <1>1, <1>2 DEF Last
<1> QED BY <1>2, <1>4, <1>6, <1>7 DEF CallsChanged, CallsFit

LEMMA Swapped ==
    ASSUME Typed, CallsFit, NEW kind \in {"body", "wait"}, InCall(kind),
           NEW result \in Results, calls' = Append(Front(calls), Draining(result)),
           Is(Len(calls) - 1, "evaluate"),
           result \in Modules => result = calls[Len(calls) - 1].current
    PROVE  CallsChanged /\ ~InCall("body")'
<1> DEFINE n == Len(calls)
           c == Draining(result)
<1>1. /\ n \in Nat \ {0} /\ DOMAIN calls = 1 .. n /\ n \in DOMAIN calls
      /\ calls \in Seq(CallRecords) /\ calls[n].kind = kind /\ calls # <<>>
  BY OnTop
<1>2. c \in CallRecords /\ c.kind = "drain" /\ c.result = result /\ result # "none"
  BY CallTypes, ModuleAssumption DEF Draining, Results
<1>3. /\ calls' \in Seq(CallRecords) /\ Len(calls') = n
      /\ DOMAIN calls' = 1 .. n
      /\ \A k \in 1 .. n - 1 : calls'[k] = calls[k]
      /\ calls'[n] = c /\ Last(calls') = c
  <2> HIDE DEF c
  <2>1. calls' = Append(Front(calls), c)
    BY DEF c
  <2> DEFINE t == Append(Front(calls), c)
  <2>2. /\ t \in Seq(CallRecords) /\ Len(t) = Len(calls)
        /\ DOMAIN t = 1 .. Len(calls)
        /\ \A k \in 1 .. Len(calls) - 1 : t[k] = calls[k]
        /\ t[Len(calls)] = c /\ Last(t) = c
    <3>1. calls \in Seq(CallRecords) /\ calls # <<>> /\ c \in CallRecords
      BY <1>1, <1>2
    <3> QED BY ONLY <3>1, TopReplaced
  <2> HIDE DEF t
  <2>3. calls' = t
    BY <2>1 DEF t
  <2> QED BY <2>2, <2>3
<1> HIDE DEF n, c
<1>4. \A i \in 1 .. n - 1 : i \in DOMAIN calls /\ calls'[i] = calls[i]
  BY <1>1, <1>3
<1>5. ASSUME NEW k \in DOMAIN calls' PROVE Fits(k)'
  <2>1. CASE k < n
    <3>1. k \in 1 .. n - 1 /\ n - 1 \in Nat
      BY <1>1, <1>3, <2>1
    <3>2. k < Len(calls) /\ k < Len(calls')
      <4>1. n = Len(calls)
        BY DEF n
      <4> QED BY <1>3, <2>1, <4>1
    <3> QED BY <1>3, <1>4, <3>1, <3>2, BelowFits
  <2>2. CASE k = n
    <3>1. calls'[k] = c /\ Is(k - 1, "evaluate")' /\ calls'[k - 1].current = calls[n - 1].current
      <4>1. n - 1 \in DOMAIN calls /\ calls[n - 1].kind = "evaluate"
        BY DEF Is, n
      <4>2. n - 1 \in 1 .. n - 1 /\ n - 1 \in 1 .. n
        BY <1>1, <4>1
      <4> QED BY <1>3, <2>2, <4>1, <4>2 DEF Is
    <3> QED BY <1>2, <3>1 DEF Fits, DrainFits, n
  <2> QED BY <1>1, <1>3, <2>1, <2>2
<1>6. \A k \in DOMAIN calls' : calls'[k].kind = "evaluate" => Alike(k)
  <2>1. \A k \in DOMAIN calls' : k \in 1 .. n - 1 \/ k = n
    BY <1>1, <1>3
  <2> QED BY <1>2, <1>3, <1>4, <2>1 DEF Alike
<1> QED BY <1>2, <1>3, <1>5, <1>6 DEF CallsChanged, CallsFit, InCall

LEMMA Returned ==
    ASSUME Typed, CallsFit, calls # <<>>,
           NEW result \in Results, calls' = ReturnToEvaluation(Front(calls), result),
           Is(Len(calls) - 1, "evaluate"),
           result \in Modules => result = calls[Len(calls) - 1].current
    PROVE  CallsChanged /\ ~InCall("body")'
<1> DEFINE n == Len(calls)
           f == Front(calls)
           c == [calls[n - 1] EXCEPT !.result = result]
<1>1. calls \in Seq(CallRecords)
  BY DEF Typed
<1>2. /\ n \in Nat \ {0} /\ DOMAIN calls = 1 .. n
      /\ f \in Seq(CallRecords) /\ Len(f) = n - 1
      /\ \A k \in 1 .. n - 1 : f[k] = calls[k]
  BY <1>1, TopOf
<1>3. n - 1 \in 1 .. n - 1 /\ calls[n - 1].kind = "evaluate" /\ n - 1 \in DOMAIN calls
  BY <1>2 DEF Is
<1>4. calls[n - 1] \in Evaluations
  BY <1>3, CallAt, KindsOfCalls
<1>5. /\ c \in Evaluations /\ c.kind = "evaluate" /\ c.result = result
      /\ c.order = calls[n - 1].order /\ c.asker = calls[n - 1].asker
      /\ c.current = calls[n - 1].current
  <2>1. ASSUME NEW e \in Evaluations
        PROVE  LET d == [e EXCEPT !.result = result]
               IN  /\ d \in Evaluations /\ d.kind = "evaluate" /\ d.result = result
                   /\ d.order = e.order /\ d.asker = e.asker /\ d.current = e.current
    BY <2>1 DEF Evaluations
  <2> QED BY <1>4, <2>1
<1>6. c \in CallRecords
  BY <1>5 DEF CallRecords
<1>7. f # <<>> /\ Last(f) = calls[n - 1]
  <2> HIDE DEF f, n
  <2>1. Len(f) = n - 1 /\ n - 1 # 0
    BY <1>2, <1>3
  <2>2. f # <<>>
    BY <2>1
  <2>3. Last(f) = f[n - 1]
    BY <1>2, <2>1, <2>2, TopOf
  <2> QED BY <1>2, <1>3, <2>2, <2>3
<1>8. calls' = Append(Front(f), c)
  BY <1>7 DEF ReturnToEvaluation
<1>9. /\ calls' \in Seq(CallRecords) /\ Len(calls') = n - 1
      /\ DOMAIN calls' = 1 .. n - 1
      /\ \A k \in 1 .. n - 2 : calls'[k] = calls[k]
      /\ calls'[n - 1] = c /\ Last(calls') = c
  <2> HIDE DEF f, c, n
  <2>1. /\ calls' \in Seq(CallRecords) /\ Len(calls') = Len(f)
        /\ DOMAIN calls' = 1 .. Len(f)
        /\ \A k \in 1 .. Len(f) - 1 : calls'[k] = f[k]
        /\ calls'[Len(f)] = c /\ Last(calls') = c
    BY <1>2, <1>6, <1>7, <1>8, TopReplaced
  <2>2. \A k \in 1 .. n - 2 : k \in 1 .. n - 1 /\ k \in 1 .. Len(f) - 1
    BY <1>2
  <2> QED BY <1>2, <2>1, <2>2
<1> HIDE DEF n, c, f
<1>10. \A i \in 1 .. n - 2 : i \in DOMAIN calls /\ calls'[i] = calls[i]
  BY <1>2, <1>9
<1>11. ASSUME NEW k \in DOMAIN calls' PROVE Fits(k)'
  <2>1. CASE k < n - 1
    <3>1. k \in 1 .. n - 2 /\ n - 2 \in Nat /\ k < Len(calls) /\ k < Len(calls')
      BY <1>2, <1>3, <1>9, <2>1 DEF n
    <3> QED BY <1>9, <1>10, <3>1, BelowFits
  <2>2. CASE k = n - 1
    <3>1. Fits(k) /\ calls[k].kind = "evaluate" /\ k < Len(calls)
      BY <1>2, <1>3, <2>2 DEF CallsFit, n
    <3>2. calls'[k] = c /\ k = Len(calls') /\ (Is(k - 1, "drain")' <=> Is(k - 1, "drain"))
      BY <1>2, <1>3, <1>9, <2>2 DEF Is
    <3> QED BY <1>5, <2>2, <3>1, <3>2 DEF Fits, EvaluationFits, n
  <2> QED BY <1>2, <1>9, <2>1, <2>2
<1>12. \A k \in DOMAIN calls' : calls'[k].kind = "evaluate" => Alike(k)
  <2>1. \A k \in DOMAIN calls' : k \in 1 .. n - 2 \/ k = n - 1
    BY <1>2, <1>9
  <2> QED BY <1>3, <1>5, <1>9, <1>10, <2>1 DEF Alike
<1> QED BY <1>5, <1>9, <1>11, <1>12 DEF CallsChanged, CallsFit, InCall

LEMMA CallsStand ==
    ASSUME Typed, CallsFit, calls' = calls
    PROVE  CallsChanged
BY DEF CallsFit, Fits, EvaluationFits, BodyFits, WaitFits, DrainFits, Is, Typed,
       Alike, CallsChanged

(* What follows for the rest of the calls when records stay.               *)
LEMMA CallsOnly ==
    ASSUME GraphInv, CallsChanged, requests' = requests, record' = record, ImportsGrow,
           \A i \in DOMAIN imports : Pending(i) => imports'[i].answer = "pending",
           \A job \in Range(queue') :
              job \in Range(queue) \/ job.kind = "resume" \/ job.id \notin DOMAIN imports
    PROVE  CallsFit' /\ AskersFit' /\ EvaluationsFit'
<1>1. Typed /\ AskersFit /\ EvaluationsFit
  BY DEF GraphInv
<1>2. CallsFit' /\ \A k \in DOMAIN calls' : calls'[k].kind = "evaluate" => Alike(k)
  BY DEF CallsChanged
<1>3. EvaluationsFit'
  BY <1>1, <1>2, EvaluationsStay
<1>4. ASSUME NEW k \in DOMAIN calls', calls'[k].kind = "evaluate", calls[k].asker # 0
      PROVE  calls[k].asker \in DOMAIN imports' /\ imports'[calls[k].asker].answer = "pending"
  <2>1. calls[k].asker \in DOMAIN imports /\ Pending(calls[k].asker)
    BY <1>1, <1>2, <1>4 DEF AskersFit, Alike
  <2> QED BY <2>1 DEF ImportsGrow
<1>5. AskersFit'
  BY <1>1, <1>2, <1>4, AskersStay
<1> QED BY <1>2, <1>3, <1>5

LEMMA RunningIsOnTop ==
    ASSUME GraphInv, NEW m \in Modules, Running(m)
    PROVE  /\ Typed /\ CallsFit /\ calls # <<>> /\ InCall("body")
           /\ Len(calls) \in Nat \ {0} /\ Top = Body(m)
           /\ body[m] = "running" /\ parked[m] = Nothing /\ record[m].evaluated
           /\ \A x \in Modules : body[x] = "running" => x = m
           /\ m \notin Async => /\ Is(Len(calls) - 1, "evaluate")
                                /\ calls[Len(calls) - 1].current = m
<1>1. Typed /\ CallsFit /\ BodiesFit /\ Begun /\ InCall("body") /\ Top.module = m
  BY DEF GraphInv, Running
<1>2. /\ Len(calls) \in Nat \ {0} /\ Len(calls) \in DOMAIN calls /\ calls # <<>>
      /\ Top = calls[Len(calls)] /\ Top \in CallRecords /\ Top.kind = "body"
  BY <1>1, OnTop
<1>3. Top = Body(m)
  BY <1>1, <1>2, KindsOfCalls
<1>4. body[m] = "running" /\ parked[m] = Nothing /\ record[m].evaluated
  BY <1>1 DEF BodiesFit, Begun, Running
<1>5. \A x \in Modules : body[x] = "running" => x = m
  BY <1>1 DEF BodiesFit, Running
<1>6. m \notin Async => /\ Is(Len(calls) - 1, "evaluate")
                        /\ calls[Len(calls) - 1].current = m
  BY <1>1, <1>2 DEF CallsFit, Fits, BodyFits
<1> QED BY <1>1, <1>2, <1>3, <1>4, <1>5, <1>6

LEMMA NoneRuns ==
    ASSUME GraphInv, NEW kind, InCall(kind), kind # "body"
    PROVE  \A m \in Modules : body[m] # "running" /\ ~Running(m)
BY DEF GraphInv, BodiesFit, Running, InCall

(* A body that has no more to do leaves its call.                          *)
LEMMA BodyLeaves ==
    ASSUME GraphInv, NEW m \in Modules, Running(m), NEW result \in {"value", m},
           LeaveBody(m, result)
    PROVE  CallsChanged /\ ~InCall("body")'
<1>1. /\ Typed /\ CallsFit /\ calls # <<>> /\ InCall("body")
      /\ m \notin Async => /\ Is(Len(calls) - 1, "evaluate")
                           /\ calls[Len(calls) - 1].current = m
  BY RunningIsOnTop
<1>2. CASE m \in Async
  BY <1>1, <1>2, Popped DEF LeaveBody
<1>3. CASE m \notin Async
  <2>1. result \in Results /\ (result \in Modules => result = m)
    BY ModuleAssumption DEF Results
  <2> QED BY <1>1, <1>3, <2>1, Swapped DEF LeaveBody
<1> QED BY <1>2, <1>3

LEMMA BodyIsOver ==
    ASSUME GraphInv, NEW m \in Modules, Running(m), NEW end \in {"done", "threw", "stopped"},
           body' = [body EXCEPT ![m] = end], CallsChanged, ~InCall("body")',
           stopped' \in BOOLEAN,
           UNCHANGED <<requests, record, parked, queue, imports, outcome, runs, awaits>>
    PROVE  GraphInv'
<1>1. Typed /\ BodiesFit /\ CallsFit /\ Begun /\ JobsFit
  BY DEF GraphInv
<1>2. CallsFit' /\ AskersFit' /\ EvaluationsFit'
  <2>1. ImportsGrow
    BY DEF ImportsGrow
  <2> QED BY <2>1, CallsOnly DEF Pending
<1>3. Typed'
  BY <1>1 DEF Typed, BodyStates, CallsChanged
<1>4. body[m] = "running" /\ \A x \in Modules : body[x] = "running" => x = m
  BY RunningIsOnTop
<1>5. \A x \in Modules : body'[x] = IF x = m THEN end ELSE body[x]
  BY <1>1 DEF Typed
<1>6. BodiesFit'
  <2>1. \A x : ~Running(x)'
    BY DEF Running
  <2> QED BY <1>1, <1>4, <1>5, <2>1 DEF BodiesFit
<1>7. Begun'
  BY <1>1, <1>4, <1>5 DEF Begun
<1>8. JobsFit'
  BY <1>1 DEF JobsFit, Pending
<1> QED BY <1>2, <1>3, <1>6, <1>7, <1>8 DEF GraphInv

LEMMA FinishKeeps ==
    ASSUME GraphInv, NEW m \in Modules, FinishBody(m) \/ ThrowFromBody(m)
    PROVE  GraphInv'
<1>1. Running(m) /\ Typed
  BY DEF FinishBody, ThrowFromBody, GraphInv
<1>2. \E result \in {"value", m} : LeaveBody(m, result)
  BY DEF FinishBody, ThrowFromBody
<1>3. CallsChanged /\ ~InCall("body")'
  BY <1>1, <1>2, BodyLeaves
<1>4. stopped' \in BOOLEAN
  BY <1>1 DEF FinishBody, ThrowFromBody, Typed
<1>5. /\ \E end \in {"done", "threw"} : body' = [body EXCEPT ![m] = end]
      /\ UNCHANGED <<requests, record, parked, queue, imports, outcome, runs, awaits>>
  BY DEF FinishBody, ThrowFromBody
<1> QED BY <1>1, <1>3, <1>4, <1>5, BodyIsOver

LEMMA StopKeeps ==
    ASSUME GraphInv, NEW m \in Modules, StopBody(m)
    PROVE  GraphInv'
<1>1. Running(m)
  BY DEF StopBody
<1>2. /\ Typed /\ CallsFit /\ calls # <<>>
      /\ m \notin Async => Is(Len(calls) - 1, "evaluate")
  BY <1>1, RunningIsOnTop
<1>3. CallsChanged /\ ~InCall("body")'
  <2>1. CASE m \in Async
    BY <1>2, <2>1, Popped DEF StopBody
  <2>2. CASE m \notin Async
    <3>1. "interrupted" \in Results /\ "interrupted" \notin Modules
      BY ModuleAssumption DEF Results
    <3> QED BY <1>2, <2>2, <3>1, Returned DEF StopBody
  <2> QED BY <2>1, <2>2
<1> QED BY <1>1, <1>3, BodyIsOver DEF StopBody

(* Steps that change the calls alone.                                      *)
LEMMA OnlyCallsMove ==
    ASSUME GraphInv, NEW kind \in {"wait", "drain"}, InCall(kind),
           CallsChanged, ~InCall("body")',
           UNCHANGED <<requests, record, body, parked, queue, imports, stopped, outcome,
                       runs, awaits>>
    PROVE  GraphInv'
<1>1. Typed /\ BodiesFit /\ Begun /\ JobsFit
  BY DEF GraphInv
<1>2. CallsFit' /\ AskersFit' /\ EvaluationsFit'
  <2>1. ImportsGrow
    BY DEF ImportsGrow
  <2> QED BY <2>1, CallsOnly DEF Pending
<1>3. Typed'
  BY <1>1 DEF Typed, CallsChanged
<1>4. \A m \in Modules : body[m] # "running"
  BY NoneRuns
<1>5. BodiesFit'
  <2>1. \A x : ~Running(x)'
    BY DEF Running
  <2> QED BY <1>1, <1>4, <2>1 DEF BodiesFit
<1>6. Begun' /\ JobsFit'
  BY <1>1 DEF Begun, JobsFit, Pending
<1> QED BY <1>2, <1>3, <1>5, <1>6 DEF GraphInv

LEMMA LookKeeps ==
    ASSUME GraphInv, LookAtPromise
    PROVE  GraphInv'
<1> DEFINE m == Top.module
           n == Len(calls)
<1>1. Typed /\ CallsFit /\ InCall("wait")
  BY DEF GraphInv, LookAtPromise
<1>2. /\ n \in DOMAIN calls /\ calls # <<>> /\ Top = calls[n]
      /\ Top \in CallRecords /\ Top.kind = "wait"
  BY <1>1, OnTop
<1>3. m \in Modules /\ Is(n - 1, "evaluate") /\ calls[n - 1].current = m
  BY <1>1, <1>2, KindsOfCalls DEF CallsFit, Fits, WaitFits, Waits
<1>4. \/ calls' = ReturnToEvaluation(Front(calls), m)
      \/ calls' = Append(calls, Draining("none"))
      \/ calls' = Append(Front(calls), Draining("value"))
  <2>1. calls' = CASE body[m] = "threw" -> ReturnToEvaluation(Front(calls), m)
                   [] body[m] \in {"parked", "stopped"} /\ queue # <<>> ->
                        Append(calls, Draining("none"))
                   [] OTHER -> Append(Front(calls), Draining("value"))
    BY DEF LookAtPromise
  <2> HIDE DEF m
  <2> QED BY <2>1
<1>5. m \in Results /\ "value" \in Results /\ "value" \notin Modules
  BY <1>3, ModuleAssumption DEF Results
<1> HIDE DEF m
<1>6. CallsChanged /\ ~InCall("body")'
  <2>1. CASE calls' = ReturnToEvaluation(Front(calls), m)
    BY <1>1, <1>2, <1>3, <1>5, <2>1, Returned
  <2>2. CASE calls' = Append(calls, Draining("none"))
    <3>1. Draining("none") \in CallRecords /\ Draining("none").kind = "drain"
      BY CallTypes DEF Draining
    <3>2. CallsChanged /\ Last(calls') = Draining("none")
      BY <1>1, <2>2, <3>1, Pushed
    <3> QED BY <3>1, <3>2 DEF InCall
  <2>3. CASE calls' = Append(Front(calls), Draining("value"))
    BY <1>1, <1>3, <1>5, <2>3, Swapped
  <2> QED BY <1>4, <2>1, <2>2, <2>3
<1> QED BY <1>1, <1>6, OnlyCallsMove DEF LookAtPromise

LEMMA EndDrainKeeps ==
    ASSUME GraphInv, EndDrain
    PROVE  GraphInv'
<1> DEFINE n == Len(calls)
<1>1. Typed /\ CallsFit /\ InCall("drain")
  BY DEF GraphInv, EndDrain
<1>2. /\ n \in DOMAIN calls /\ calls # <<>> /\ Top = calls[n]
      /\ Top \in CallRecords /\ Top.kind = "drain"
  BY <1>1, OnTop
<1>3. /\ Top.result \in Results \cup {"none"}
      /\ Top.result # "none" =>
            /\ Is(n - 1, "evaluate")
            /\ Top.result \in Modules => Top.result = calls[n - 1].current
  BY <1>1, <1>2, KindsOfCalls DEF CallsFit, Fits, DrainFits, Drains
<1>4. CallsChanged /\ ~InCall("body")'
  <2>1. CASE Top.result = "none"
    BY <1>1, <1>2, <2>1, Popped DEF EndDrain
  <2>2. CASE Top.result # "none"
    <3>1. Top.result \in Results /\ calls' = ReturnToEvaluation(Front(calls), Top.result)
      BY <1>3, <2>2 DEF EndDrain
    <3> QED BY <1>1, <1>2, <1>3, <2>2, <3>1, Returned
  <2> QED BY <2>1, <2>2
<1> QED BY <1>1, <1>4, OnlyCallsMove DEF EndDrain

(* A resumption joins the queue.                                           *)
LEMMA ResumptionQueued ==
    ASSUME Typed, JobsFit, NEW m \in Modules, parked[m] # Queued,
           queue' = Append(queue, Resume(m))
    PROVE  /\ queue' \in Seq(Resumptions \cup ImportJobs) /\ Distinct(queue')
           /\ Range(queue') = Range(queue) \cup {Resume(m)}
<1>1. Resume(m) \in Resumptions \cup ImportJobs /\ Resume(m).kind = "resume" /\ Resume(m).module = m
  BY JobTypes
<1>2. Resume(m) \notin Range(queue)
  BY <1>1 DEF JobsFit
<1> QED BY <1>1, <1>2, Enqueued DEF Typed, JobsFit

LEMMA SettleKeeps ==
    ASSUME GraphInv, NEW m \in Modules, NEW other \in Modules, Settle(m, other)
    PROVE  GraphInv'
<1>1. Typed /\ BodiesFit /\ CallsFit /\ Begun /\ JobsFit /\ AskersFit /\ EvaluationsFit
  BY DEF GraphInv
<1>2. /\ parked[other] = Another /\ parked' = [parked EXCEPT ![other] = Queued]
      /\ queue' = Append(queue, Resume(other))
      /\ UNCHANGED <<requests, record, body, calls, imports, stopped, outcome, runs, awaits>>
  BY DEF Settle
<1>3. \A x \in Modules : parked'[x] = IF x = other THEN Queued ELSE parked[x]
  BY <1>1, <1>2 DEF Typed
<1>4. /\ queue' \in Seq(Resumptions \cup ImportJobs) /\ Distinct(queue')
      /\ Range(queue') = Range(queue) \cup {Resume(other)}
  BY <1>1, <1>2, WaitTypes, ResumptionQueued
<1>5. Typed'
  BY <1>1, <1>2, <1>4, WaitTypes DEF Typed
<1>6. BodiesFit'
  BY <1>1, <1>2, <1>3, WaitTypes DEF BodiesFit, Running, InCall, Top
<1>7. Begun'
  BY <1>1, <1>2 DEF Begun
<1>8. JobsFit'
  <2>1. ASSUME NEW job \in Range(queue')
        PROVE  /\ job.kind = "resume" => parked'[job.module] = Queued
               /\ job.kind = "import" => job.id \in DOMAIN imports /\ Pending(job.id)
    <3>1. CASE job \in Range(queue)
      <4>1. job.kind = "resume" => job.module \in Modules
        BY <1>1, <3>1, JobsAre, JobKinds
      <4> QED BY <1>1, <1>3, <3>1, <4>1 DEF JobsFit
    <3>2. CASE job = Resume(other)
      BY <1>3, <3>2, JobTypes
    <3> QED BY <1>4, <3>1, <3>2
  <2> QED BY <1>2, <1>4, <2>1 DEF JobsFit, Pending
<1>9. CallsFit' /\ AskersFit' /\ EvaluationsFit'
  <2>1. ImportsGrow
    BY <1>2 DEF ImportsGrow
  <2>2. \A job \in Range(queue') : job \in Range(queue) \/ job.kind = "resume"
    BY <1>4, JobTypes
  <2>3. CallsChanged
    BY <1>1, <1>2, CallsStand
  <2> QED BY <1>2, <2>1, <2>2, <2>3, CallsOnly DEF Pending
<1> QED BY <1>5, <1>6, <1>7, <1>8, <1>9 DEF GraphInv

LEMMA AwaitKeeps ==
    ASSUME GraphInv, NEW m \in Modules,
           NEW on \in {Queued, Another} \cup {OnImport(i) : i \in DOMAIN imports},
           Await(m, on)
    PROVE  GraphInv'
<1>1. Typed /\ BodiesFit /\ CallsFit /\ Begun /\ JobsFit
  BY DEF GraphInv
<1>2. /\ Running(m) /\ m \in Async
      /\ awaits < MaxAwaits /\ awaits' = awaits + 1
      /\ body' = [body EXCEPT ![m] = "parked"]
      /\ parked' = [parked EXCEPT ![m] = on]
      /\ queue' = IF on = Queued THEN Append(queue, Resume(m)) ELSE queue
      /\ calls' = Front(calls)
      /\ UNCHANGED <<requests, record, imports, stopped, outcome, runs>>
  BY DEF Await
<1>3. /\ calls # <<>> /\ body[m] = "running" /\ parked[m] = Nothing /\ record[m].evaluated
      /\ \A x \in Modules : body[x] = "running" => x = m
  BY <1>2, RunningIsOnTop
<1>4. /\ \A x \in Modules : parked'[x] = IF x = m THEN on ELSE parked[x]
      /\ \A x \in Modules : body'[x] = IF x = m THEN "parked" ELSE body[x]
  BY <1>1, <1>2 DEF Typed
<1>5. CallsChanged /\ ~InCall("body")'
  BY <1>1, <1>2, <1>3, Popped
<1>6. /\ queue' \in Seq(Resumptions \cup ImportJobs) /\ Distinct(queue')
      /\ Range(queue') = Range(queue) \cup (IF on = Queued THEN {Resume(m)} ELSE {})
  <2>1. CASE on = Queued
    BY <1>1, <1>2, <1>3, <2>1, WaitTypes, ResumptionQueued
  <2>2. CASE on # Queued
    BY <1>1, <1>2, <2>2 DEF Typed, JobsFit
  <2> QED BY <2>1, <2>2
<1>7. CallsFit' /\ AskersFit' /\ EvaluationsFit'
  <2>1. ImportsGrow
    BY <1>2 DEF ImportsGrow
  <2>2. \A job \in Range(queue') : job \in Range(queue) \/ job.kind = "resume"
    BY <1>6, JobTypes
  <2> QED BY <1>2, <1>5, <2>1, <2>2, CallsOnly DEF Pending
<1>8. on \in [on : {"nothing", "job", "other", "import"}, id : Nat] /\ on # Nothing
  <2>1. \A i \in DOMAIN imports : i \in Nat
    BY <1>1, JobsAre
  <2> QED BY <2>1, WaitTypes
<1>9. Typed'
  <2>1. awaits' \in 0 .. MaxAwaits
    BY <1>1, <1>2, ModuleAssumption DEF Typed
  <2> QED BY <1>1, <1>2, <1>5, <1>6, <1>8, <2>1 DEF Typed, BodyStates, CallsChanged
<1>10. BodiesFit'
  <2>1. \A x : ~Running(x)'
    BY <1>5 DEF Running
  <2> QED BY <1>1, <1>2, <1>3, <1>4, <1>8, <2>1 DEF BodiesFit
<1>11. Begun'
  BY <1>1, <1>2, <1>3, <1>4 DEF Begun
<1>12. JobsFit'
  <2>1. ASSUME NEW job \in Range(queue')
        PROVE  /\ job.kind = "resume" => parked'[job.module] = Queued
               /\ job.kind = "import" => job.id \in DOMAIN imports /\ Pending(job.id)
    <3>1. CASE job \in Range(queue)
      <4>1. job.kind = "resume" => job.module \in Modules
        BY <1>1, <3>1, JobsAre, JobKinds
      <4>2. job.kind = "resume" => job.module # m
        BY <1>1, <1>3, <3>1, WaitTypes DEF JobsFit
      <4> QED BY <1>1, <1>4, <3>1, <4>1, <4>2 DEF JobsFit
    <3>2. CASE job = Resume(m) /\ on = Queued
      BY <1>4, <3>2, JobTypes
    <3> QED BY <1>6, <3>1, <3>2
  <2> QED BY <1>2, <1>6, <2>1 DEF JobsFit, Pending
<1> QED BY <1>7, <1>9, <1>10, <1>11, <1>12 DEF GraphInv

LEMMA BeginImportKeeps ==
    ASSUME GraphInv, NEW m \in Modules, NEW target \in Modules, BeginImport(m, target)
    PROVE  GraphInv'
<1> DEFINE n == Len(imports)
           new == [module |-> target, by |-> m, answer |-> "pending"]
           Records == [module : Modules, by : Modules, answer : Answers]
<1>1. Typed /\ BodiesFit /\ CallsFit /\ Begun /\ JobsFit /\ AskersFit
  BY DEF GraphInv
<1>2. /\ imports' = Append(imports, new) /\ queue' = Append(queue, Import(n + 1))
      /\ UNCHANGED <<requests, record, body, parked, calls, stopped, outcome, runs, awaits>>
  BY DEF BeginImport
<1>3. imports \in Seq(Records) /\ new \in Records /\ new.answer = "pending"
  BY <1>1 DEF Typed, Answers
<1>4. /\ imports' \in Seq(Records) /\ n \in Nat /\ DOMAIN imports = 1 .. n
      /\ DOMAIN imports' = 1 .. n + 1
      /\ \A i \in 1 .. n : imports'[i] = imports[i]
      /\ imports'[n + 1] = new
  <2> HIDE DEF new, Records
  <2> QED BY <1>2, <1>3, PushedOn
<1> HIDE DEF new, n
<1>5. /\ Import(n + 1) \in Resumptions \cup ImportJobs
      /\ Import(n + 1).kind = "import" /\ Import(n + 1).id = n + 1
      /\ n + 1 \notin DOMAIN imports /\ n + 1 \in DOMAIN imports'
  BY <1>4, JobTypes
<1>6. Import(n + 1) \notin Range(queue)
  BY <1>1, <1>5 DEF JobsFit
<1>7. /\ queue' \in Seq(Resumptions \cup ImportJobs) /\ Distinct(queue')
      /\ Range(queue') = Range(queue) \cup {Import(n + 1)}
  BY <1>1, <1>2, <1>5, <1>6, Enqueued DEF Typed, JobsFit
<1>8. \A i \in DOMAIN imports : i \in DOMAIN imports' /\ imports'[i] = imports[i]
  BY <1>4
<1>9. Typed'
  BY <1>1, <1>2, <1>4, <1>7 DEF Typed
<1>10. BodiesFit'
  BY <1>1, <1>2, <1>8 DEF BodiesFit, Running, InCall, Top
<1>11. CallsChanged
  BY <1>1, <1>2, CallsStand
<1>12. CallsFit' /\ AskersFit' /\ EvaluationsFit'
  <2>1. ImportsGrow
    BY <1>8 DEF ImportsGrow
  <2>2. \A job \in Range(queue') : job \in Range(queue) \/ job.id \notin DOMAIN imports
    BY <1>5, <1>7
  <2>3. \A i \in DOMAIN imports : Pending(i) => imports'[i].answer = "pending"
    BY <1>8 DEF Pending
  <2> QED BY <1>2, <1>11, <2>1, <2>2, <2>3, CallsOnly
<1>13. Begun'
  BY <1>1, <1>2 DEF Begun
<1>14. JobsFit'
  <2>1. ASSUME NEW job \in Range(queue')
        PROVE  /\ job.kind = "resume" => parked'[job.module] = Queued
               /\ job.kind = "import" => job.id \in DOMAIN imports' /\ imports'[job.id].answer = "pending"
    <3>1. CASE job \in Range(queue)
      BY <1>1, <1>2, <1>8, <3>1 DEF JobsFit, Pending
    <3>2. CASE job = Import(n + 1)
      BY <1>3, <1>4, <1>5, <3>2 DEF new
    <3> QED BY <1>7, <3>1, <3>2
  <2> QED BY <1>7, <2>1 DEF JobsFit, Pending
<1> QED BY <1>9, <1>10, <1>12, <1>13, <1>14 DEF GraphInv

(* A job is taken off the queue.                                           *)
LEMMA JobTaken ==
    ASSUME Typed, JobsFit, queue # <<>>
    PROVE  /\ Head(queue) \in Resumptions \cup ImportJobs /\ Head(queue) \in Range(queue)
           /\ Tail(queue) \in Seq(Resumptions \cup ImportJobs) /\ Distinct(Tail(queue))
           /\ Range(Tail(queue)) = Range(queue) \ {Head(queue)} /\ Tail(queue) # queue
BY Dequeued DEF Typed, JobsFit

LEMMA ResumptionKeeps ==
    ASSUME GraphInv, RunResumption
    PROVE  GraphInv'
<1> DEFINE m == Head(queue).module
           to == IF stopped THEN "stopped" ELSE "running"
<1>1. Typed /\ BodiesFit /\ CallsFit /\ Begun /\ JobsFit
  BY DEF GraphInv
<1>2. /\ InCall("drain") /\ queue # <<>> /\ Head(queue).kind = "resume"
      /\ body' = [body EXCEPT ![m] = to] /\ parked' = [parked EXCEPT ![m] = Nothing]
      /\ calls' = IF stopped THEN calls ELSE Append(calls, Body(m))
      /\ queue' = Tail(queue)
      /\ UNCHANGED <<requests, record, imports, stopped, outcome, runs, awaits>>
  BY DEF RunResumption
<1>3. /\ Head(queue) \in Range(queue) /\ m \in Modules /\ Head(queue) = Resume(m)
      /\ queue' \in Seq(Resumptions \cup ImportJobs) /\ Distinct(queue')
      /\ Range(queue') = Range(queue) \ {Resume(m)}
  BY <1>1, <1>2, JobTaken, JobKinds
<1>4. parked[m] = Queued /\ body[m] = "parked"
  BY <1>1, <1>2, <1>3, WaitTypes DEF JobsFit, BodiesFit
<1> HIDE DEF m, to
<1>5. /\ \A x \in Modules : parked'[x] = IF x = m THEN Nothing ELSE parked[x]
      /\ \A x \in Modules : body'[x] = IF x = m THEN to ELSE body[x]
  BY <1>1, <1>2 DEF Typed
<1>6. \A x \in Modules : body[x] # "running" /\ ~Running(x)
  BY <1>2, NoneRuns
<1>7. m \in Async
  BY <1>1, <1>3, <1>4 DEF BodiesFit
<1>8. CallsChanged /\ (stopped => ~InCall("body")')
                   /\ (~stopped => calls' # <<>> /\ Last(calls') = Body(m))
  <2>1. CASE stopped
    <3>1. calls' = calls
      BY <1>2, <2>1
    <3>2. ~InCall("body")
      BY <1>2 DEF InCall
    <3> QED BY <1>1, <2>1, <3>1, <3>2, CallsStand DEF InCall
  <2>2. CASE ~stopped
    <3>1. Body(m) \in CallRecords /\ calls' = Append(calls, Body(m))
      BY <1>2, <1>3, <2>2, CallTypes
    <3> QED BY <1>1, <1>2, <1>7, <2>2, <3>1, Pushed
  <2> QED BY <2>1, <2>2
<1>9. CallsFit' /\ AskersFit' /\ EvaluationsFit'
  <2>1. ImportsGrow
    BY <1>2 DEF ImportsGrow
  <2> QED BY <1>2, <1>3, <1>8, <2>1, CallsOnly DEF Pending
<1>10. to \in BodyStates /\ to # "idle" /\ to # "parked" /\ (to = "running" <=> ~stopped)
  BY DEF to, BodyStates
<1>11. Typed'
  BY <1>1, <1>2, <1>3, <1>8, <1>10, WaitTypes DEF Typed, CallsChanged
<1>12. BodiesFit'
  <2>1. \A x \in Modules : Running(x)' <=> (~stopped /\ x = m)
    <3>1. CASE stopped
      BY <1>8, <3>1 DEF Running
    <3>2. CASE ~stopped
      <4>1. Body(m).kind = "body" /\ Body(m).module = m
        BY DEF Body
      <4> QED BY <1>8, <3>2, <4>1 DEF Running, InCall, Top
    <3> QED BY <3>1, <3>2
  <2>2. \A x \in Modules : body'[x] = "running" <=> Running(x)'
    BY <1>5, <1>6, <1>10, <2>1
  <2>3. \A x \in Modules :
           /\ parked'[x] \in {Nothing, Queued, Another} \cup {OnImport(i) : i \in DOMAIN imports}
           /\ parked'[x] # Nothing <=> body'[x] = "parked"
           /\ body'[x] = "parked" => x \in Async
    BY <1>1, <1>5, <1>10 DEF BodiesFit
  <2> QED BY <1>2, <2>2, <2>3 DEF BodiesFit
<1>13. Begun'
  BY <1>1, <1>2, <1>4, <1>5, <1>10 DEF Begun
<1>14. JobsFit'
  <2>1. ASSUME NEW job \in Range(queue')
        PROVE  /\ job.kind = "resume" => parked'[job.module] = Queued
               /\ job.kind = "import" => job.id \in DOMAIN imports /\ Pending(job.id)
    <3>1. job \in Range(queue) /\ job # Resume(m)
      BY <1>3
    <3>2. job.kind = "resume" => job.module \in Modules /\ job = Resume(job.module)
      BY <1>1, <3>1, JobsAre, JobKinds
    <3> QED BY <1>1, <1>5, <3>1, <3>2 DEF JobsFit
  <2> QED BY <1>2, <1>3, <2>1 DEF JobsFit, Pending
<1> QED BY <1>9, <1>11, <1>12, <1>13, <1>14 DEF GraphInv

-----------------------------------------------------------------------------
(* Evaluations.                                                            *)

ImportRecords == [module : Modules, by : Modules, answer : Answers]

(* An import() is answered, with the jobs the queue is left with.          *)
LEMMA Answering ==
    ASSUME Typed, BodiesFit, JobsFit, NEW i \in DOMAIN imports, NEW answer \in Answers,
           NEW jobs \in Seq(Resumptions \cup ImportJobs), Distinct(jobs),
           Range(jobs) \subseteq Range(queue), Import(i) \notin Range(jobs),
           Answer(i, answer, jobs)
    PROVE  /\ imports' \in Seq(ImportRecords) /\ DOMAIN imports' = DOMAIN imports
           /\ \A j \in DOMAIN imports : /\ imports'[j].module = imports[j].module
                                        /\ j # i => imports'[j] = imports[j]
           /\ imports'[i].answer = answer
           /\ queue' \in Seq(Resumptions \cup ImportJobs)
           /\ \A job \in Range(queue') : job \in Range(queue) \/ job.kind = "resume"
           /\ JobsFit'
           /\ parked' \in [Modules -> [on : {"nothing", "job", "other", "import"}, id : Nat]]
           /\ \A m \in Modules :
                 /\ parked'[m] \in {Nothing, Queued, Another} \cup {OnImport(j) : j \in DOMAIN imports}
                 /\ parked'[m] # Nothing <=> parked[m] # Nothing
<1> DEFINE by == imports[i].by
           new == [imports[i] EXCEPT !.answer = answer]
           wakes == parked[by] = OnImport(i)
<1>1. imports \in Seq(ImportRecords) /\ imports[i] \in ImportRecords /\ by \in Modules
  BY JobsAre DEF Typed, ImportRecords
<1>2. /\ new \in ImportRecords /\ new.answer = answer /\ new.module = imports[i].module
  <2>1. ASSUME NEW x \in ImportRecords
        PROVE  LET y == [x EXCEPT !.answer = answer]
               IN  y \in ImportRecords /\ y.answer = answer /\ y.module = x.module
    BY <2>1 DEF ImportRecords
  <2> QED BY <1>1, <2>1
<1>3. /\ imports' = [imports EXCEPT ![i] = new]
      /\ wakes => parked' = [parked EXCEPT ![by] = Queued] /\ queue' = Append(jobs, Resume(by))
      /\ ~wakes => parked' = parked /\ queue' = jobs
  BY DEF Answer
<1> HIDE DEF new
<1>4. /\ imports' \in Seq(ImportRecords) /\ DOMAIN imports' = DOMAIN imports
      /\ \A j \in DOMAIN imports : imports'[j] = IF j = i THEN new ELSE imports[j]
  <2> HIDE DEF ImportRecords
  <2> QED BY <1>1, <1>2, <1>3
<1> HIDE DEF by, wakes
<1>5. /\ \A x \in Modules : parked'[x] = IF wakes /\ x = by THEN Queued ELSE parked[x]
      /\ parked' \in [Modules -> [on : {"nothing", "job", "other", "import"}, id : Nat]]
  BY <1>3, WaitTypes, ZenonT(60) DEF Typed
<1>6. wakes => parked[by] # Queued /\ parked[by] # Nothing
  BY WaitTypes DEF wakes
<1>7. /\ Resume(by) \in Resumptions \cup ImportJobs /\ Resume(by).kind = "resume"
      /\ Resume(by).module = by
  BY <1>1, JobTypes
<1>8. wakes => Resume(by) \notin Range(jobs)
  BY <1>6, <1>7 DEF JobsFit
<1>9. /\ queue' \in Seq(Resumptions \cup ImportJobs) /\ Distinct(queue')
      /\ Range(queue') = Range(jobs) \cup (IF wakes THEN {Resume(by)} ELSE {})
  <2>1. CASE wakes
    <3>1. queue' = Append(jobs, Resume(by))
      BY <1>3, <2>1
    <3>2. /\ jobs \in Seq(Resumptions \cup ImportJobs) /\ Distinct(jobs)
          /\ Resume(by) \in Resumptions \cup ImportJobs /\ Resume(by) \notin Range(jobs)
      BY <1>7, <1>8, <2>1
    <3> DEFINE t == Append(jobs, Resume(by))
    <3>3. /\ t \in Seq(Resumptions \cup ImportJobs) /\ Distinct(t)
          /\ Range(t) = Range(jobs) \cup {Resume(by)}
      BY ONLY <3>2, Enqueued
    <3> HIDE DEF t
    <3>4. queue' = t
      BY <3>1 DEF t
    <3>5. Distinct(queue')
      BY <3>3, <3>4 DEF Distinct
    <3> QED BY <2>1, <3>3, <3>4, <3>5
  <2>2. CASE ~wakes
    BY <1>3, <2>2
  <2> QED BY <2>1, <2>2
<1>10. JobsFit'
  <2>1. ASSUME NEW job \in Range(queue')
        PROVE  /\ job.kind = "resume" => parked'[job.module] = Queued
               /\ job.kind = "import" => job.id \in DOMAIN imports' /\ imports'[job.id].answer = "pending"
    <3>1. CASE job \in Range(jobs)
      <4>1. job \in Range(queue) /\ job # Import(i)
        BY <3>1
      <4>2. /\ job.kind = "resume" => job.module \in Modules
            /\ job.kind = "import" => job = Import(job.id)
        BY <4>1, JobsAre, JobKinds
      <4> QED BY <1>4, <1>5, <4>1, <4>2 DEF JobsFit, Pending
    <3>2. CASE job = Resume(by) /\ wakes
      BY <1>1, <1>5, <1>7, <3>2
    <3> QED BY <1>9, <3>1, <3>2
  <2> QED BY <1>9, <2>1 DEF JobsFit, Pending
<1>11. \A m \in Modules :
          /\ parked'[m] \in {Nothing, Queued, Another} \cup {OnImport(j) : j \in DOMAIN imports}
          /\ parked'[m] # Nothing <=> parked[m] # Nothing
  BY <1>5, <1>6, WaitTypes DEF BodiesFit
<1> QED BY <1>2, <1>4, <1>5, <1>7, <1>9, <1>10, <1>11

(* What is known of the evaluation on top.                                 *)
LEMMA EvaluationOnTop ==
    ASSUME GraphInv, InCall("evaluate")
    PROVE  /\ Typed /\ calls # <<>> /\ Len(calls) \in Nat \ {0} /\ DOMAIN calls = 1 .. Len(calls)
           /\ Top = calls[Len(calls)] /\ Top \in Evaluations /\ Top \in CallRecords
           /\ Top.asker = 0 <=> Len(calls) = 1
           /\ Threw(Top) => Top.result = Top.current
           /\ Top.asker # 0 => /\ Top.asker \in DOMAIN imports /\ Pending(Top.asker)
                               /\ Import(Top.asker) \notin Range(queue)
           /\ \A k \in DOMAIN calls :
                 /\ calls[k].kind = "evaluate" /\ k # Len(calls) /\ calls[k].asker # 0
                      => calls[k].asker # Top.asker
           /\ \A m \in Modules : body[m] # "running" /\ ~Running(m)
           /\ \E entry \in Modules : \E n \in 0 .. Len(Order(entry)) :
                 Into(Len(calls), entry, n)
<1>1. Typed /\ CallsFit /\ AskersFit /\ EvaluationsFit
  BY DEF GraphInv
<1>2. /\ Len(calls) \in Nat \ {0} /\ Len(calls) \in DOMAIN calls /\ DOMAIN calls = 1 .. Len(calls)
      /\ Top = calls[Len(calls)] /\ Top \in CallRecords /\ Top.kind = "evaluate" /\ calls # <<>>
  BY <1>1, OnTop
<1>3. Top \in Evaluations
  BY <1>2, KindsOfCalls
<1>4. (Top.asker = 0 <=> Len(calls) = 1) /\ (Threw(Top) => Top.result = Top.current)
  BY <1>1, <1>2 DEF CallsFit, Fits, EvaluationFits, Threw
<1>5. /\ Top.asker # 0 => /\ Top.asker \in DOMAIN imports /\ Pending(Top.asker)
                          /\ Import(Top.asker) \notin Range(queue)
      /\ \A k \in DOMAIN calls :
            calls[k].kind = "evaluate" /\ k # Len(calls) /\ calls[k].asker # 0
                 => calls[k].asker # Top.asker
  BY <1>1, <1>2 DEF AskersFit
<1>6. \A m \in Modules : body[m] # "running" /\ ~Running(m)
  BY NoneRuns
<1>7. \E entry \in Modules : \E n \in 0 .. Len(Order(entry)) : Into(Len(calls), entry, n)
  BY <1>1, <1>2 DEF EvaluationsFit
<1> QED BY <1>1, <1>2, <1>3, <1>4, <1>5, <1>6, <1>7

LEMMA EndKeeps ==
    ASSUME GraphInv, InCall("evaluate"), NEW result \in Results, End(result),
           \/ record' = record
           \/ /\ Top.current \in Modules
              /\ record' = [record EXCEPT ![Top.current].failed = TRUE]
    PROVE  GraphInv'
<1> DEFINE n == Len(calls)
<1>1. Typed /\ BodiesFit /\ CallsFit /\ Begun /\ JobsFit /\ AskersFit /\ EvaluationsFit
  BY DEF GraphInv
<1>2. /\ calls # <<>> /\ n \in Nat \ {0} /\ DOMAIN calls = 1 .. n
      /\ Top = calls[n] /\ Top \in Evaluations
      /\ Top.asker # 0 => /\ Top.asker \in DOMAIN imports /\ Pending(Top.asker)
                          /\ Import(Top.asker) \notin Range(queue)
      /\ \A k \in DOMAIN calls :
            calls[k].kind = "evaluate" /\ k # n /\ calls[k].asker # 0
                 => calls[k].asker # Top.asker
      /\ \A m \in Modules : body[m] # "running"
  BY EvaluationOnTop
<1>3. /\ calls' = Front(calls) /\ UNCHANGED <<requests, body, stopped, runs, awaits>>
      /\ Top.asker = 0 => outcome' = result /\ UNCHANGED <<imports, parked, queue>>
      /\ Top.asker # 0 => Answer(Top.asker, AnswerFor(result), queue) /\ outcome' = outcome
  <2>1. calls' = Front(calls) /\ UNCHANGED <<requests, body, stopped, runs, awaits>>
    BY ONLY End(result) DEF End
  <2>2. /\ Top.asker = 0 => outcome' = result
        /\ Top.asker = 0 => UNCHANGED <<imports, parked, queue>>
    BY ONLY End(result), Zenon DEF End
  <2>3. /\ Top.asker # 0 => Answer(Top.asker, AnswerFor(result), queue)
        /\ Top.asker # 0 => outcome' = outcome
    BY ONLY End(result), Zenon DEF End
  <2> QED BY ONLY <2>1, <2>2, <2>3
<1>4. /\ CallsChanged /\ ~InCall("body")' /\ Len(calls') = n - 1
      /\ \A k \in 1 .. n - 1 : calls'[k] = calls[k]
  BY <1>1, <1>2, <1>3, Popped, Zenon
<1>5. DOMAIN calls' = 1 .. n - 1 /\ \A k \in DOMAIN calls' : k \in DOMAIN calls /\ k # n /\ k < n
  BY <1>2, <1>4 DEF CallsChanged
<1>6. AnswerFor(result) \in Answers
  BY ModuleAssumption DEF AnswerFor, Answers, Results
<1>7. /\ imports' \in Seq(ImportRecords) /\ DOMAIN imports' = DOMAIN imports
      /\ \A j \in DOMAIN imports : /\ imports'[j].module = imports[j].module
                                   /\ j # Top.asker => imports'[j] = imports[j]
      /\ queue' \in Seq(Resumptions \cup ImportJobs)
      /\ \A job \in Range(queue') : job \in Range(queue) \/ job.kind = "resume"
      /\ JobsFit'
      /\ parked' \in [Modules -> [on : {"nothing", "job", "other", "import"}, id : Nat]]
      /\ \A m \in Modules :
            /\ parked'[m] \in {Nothing, Queued, Another} \cup {OnImport(j) : j \in DOMAIN imports}
            /\ parked'[m] # Nothing <=> parked[m] # Nothing
  <2>1. CASE Top.asker = 0
    <3>1. UNCHANGED <<imports, parked, queue>>
      BY <1>3, <2>1
    <3>2. JobsFit'
      BY <1>1, <3>1 DEF JobsFit, Pending
    <3> QED BY <1>1, <3>1, <3>2 DEF Typed, BodiesFit, ImportRecords
  <2>2. CASE Top.asker # 0
    <3>1. Answer(Top.asker, AnswerFor(result), queue) /\ Top.asker \in DOMAIN imports
      BY <1>2, <1>3, <2>2
    <3>2. queue \in Seq(Resumptions \cup ImportJobs) /\ Distinct(queue)
      BY <1>1 DEF Typed, JobsFit
    <3> QED BY <1>1, <1>2, <1>6, <2>2, <3>1, <3>2, Answering
  <2> QED BY <2>1, <2>2
<1>8. /\ record' \in [Modules -> [evaluated : BOOLEAN, failed : BOOLEAN]]
      /\ \A m \in Modules :
            /\ record'[m].evaluated = record[m].evaluated
            /\ record'[m].failed /\ ~record[m].failed => m = Top.current
  <2>1. record \in [Modules -> [evaluated : BOOLEAN, failed : BOOLEAN]]
    BY <1>1 DEF Typed
  <2>2. CASE record' = record
    BY <2>1, <2>2
  <2>3. CASE /\ Top.current \in Modules
             /\ record' = [record EXCEPT ![Top.current].failed = TRUE]
    <3> DEFINE c == Top.current
               new == [record[c] EXCEPT !.failed = TRUE]
    <3>1. c \in Modules /\ record' = [record EXCEPT ![c] = new]
      BY <2>3
    <3>2. new \in [evaluated : BOOLEAN, failed : BOOLEAN] /\ new.evaluated = record[c].evaluated
      <4>1. record[c] \in [evaluated : BOOLEAN, failed : BOOLEAN]
        BY <2>1, <3>1
      <4> QED BY <4>1
    <3> HIDE DEF c, new
    <3>3. \A m \in Modules : record'[m] = IF m = c THEN new ELSE record[m]
      BY <2>1, <3>1
    <3>4. record' \in [Modules -> [evaluated : BOOLEAN, failed : BOOLEAN]]
      BY <2>1, <3>1, <3>2
    <3>5. \A m \in Modules :
             /\ record'[m].evaluated = record[m].evaluated
             /\ record'[m].failed /\ ~record[m].failed => m = c
      BY <3>2, <3>3
    <3> QED BY <3>4, <3>5 DEF c
  <2> QED BY <2>2, <2>3
<1>9. Typed'
  <2>1. outcome' \in {"none", "value", "interrupted", "unlinked"} \cup Modules
    BY <1>1, <1>3 DEF Typed, Results
  <2> QED BY <1>1, <1>3, <1>4, <1>7, <1>8, <2>1 DEF Typed, CallsChanged, ImportRecords
<1>10. BodiesFit'
  <2>1. \A x : ~Running(x)'
    BY <1>4 DEF Running
  <2> QED BY <1>1, <1>2, <1>3, <1>7, <2>1 DEF BodiesFit
<1>11. Begun'
  BY <1>1, <1>3, <1>8 DEF Begun
<1>12. AskersFit'
  <2>1. ASSUME NEW k \in DOMAIN calls', calls'[k].kind = "evaluate", calls[k].asker # 0
        PROVE  calls[k].asker \in DOMAIN imports' /\ imports'[calls[k].asker].answer = "pending"
    <3>1. /\ calls[k].kind = "evaluate" /\ calls[k].asker # Top.asker /\ k \in DOMAIN calls
      BY <1>2, <1>4, <1>5, <2>1
    <3>2. calls[k].asker \in DOMAIN imports /\ Pending(calls[k].asker)
      BY <1>1, <2>1, <3>1 DEF AskersFit
    <3> QED BY <1>7, <3>1, <3>2 DEF Pending
  <2> QED BY <1>1, <1>4, <1>7, <2>1, AskersStay DEF CallsChanged
<1>13. EvaluationsFit'
  <2> SUFFICES ASSUME NEW k \in DOMAIN calls', calls'[k].kind = "evaluate"
               PROVE  \E entry \in Modules : \E i \in 0 .. Len(Order(entry)') : Into(k, entry, i)'
    BY DEF EvaluationsFit
  <2>1. Alike(k)
    BY <1>4 DEF CallsChanged
  <2>2. PICK entry \in Modules : \E i \in 0 .. Len(Order(entry)) : Into(k, entry, i)
    BY <1>1, <2>1 DEF EvaluationsFit, Alike
  <2>3. PICK i \in 0 .. Len(Order(entry)) : Into(k, entry, i)
    BY <2>2
  <2>4. ImportsGrow
    BY <1>7 DEF ImportsGrow
  <2>5. \A j \in DOMAIN calls' : calls'[j].kind = "evaluate" => SameCurrent(j)
    BY <1>4 DEF CallsChanged, Alike, SameCurrent
  <2>6. \A m \in Modules : record'[m].failed /\ ~record[m].failed =>
           \E j \in DOMAIN calls : j > k /\ calls[j].kind = "evaluate" /\ calls[j].current = m
    <3>1. n \in DOMAIN calls /\ calls[n].kind = "evaluate" /\ n > k
      BY <1>2, <1>5 DEF Evaluations
    <3> QED BY <1>2, <1>8, <3>1
  <2>7. \A m \in Modules : record[m].evaluated => record'[m].evaluated
    BY <1>8
  <2>8. i \in 0 .. Len(Order(entry)') /\ Into(k, entry, i)'
    BY <1>1, <1>3, <2>1, <2>3, <2>4, <2>5, <2>6, <2>7, StillInto
  <2> QED BY <2>8
<1> QED BY <1>4, <1>7, <1>9, <1>10, <1>11, <1>12, <1>13 DEF GraphInv, CallsChanged

LEMMA EndingsKeep ==
    ASSUME GraphInv, MeetFailure \/ RecordFailure \/ EndOfOrder
    PROVE  GraphInv'
<1>1. InCall("evaluate")
  BY DEF MeetFailure, RecordFailure, EndOfOrder
<1>2. Top \in Evaluations /\ (Threw(Top) => Top.result = Top.current)
  BY <1>1, EvaluationOnTop
<1>3. CASE MeetFailure
  <2>1. Coming \in Modules /\ End(Coming) /\ record' = record
    BY <1>2, <1>3 DEF MeetFailure, Coming, Evaluations
  <2>2. Coming \in Results
    BY <2>1 DEF Results
  <2> QED BY <1>1, <2>1, <2>2, EndKeeps
<1>4. CASE RecordFailure
  <2>1. Top.result \in Results /\ End(Top.result) /\ Top.current \in Modules
    BY <1>2, <1>4 DEF RecordFailure, Evaluations, Threw
  <2>2. record' = [record EXCEPT ![Top.current].failed = TRUE]
    BY <1>4 DEF RecordFailure
  <2> QED BY <1>1, <2>1, <2>2, EndKeeps
<1>5. CASE EndOfOrder
  <2>1. Top.result \in Results /\ End(Top.result) /\ record' = record
    BY <1>2, <1>5 DEF EndOfOrder, Evaluations
  <2> QED BY <1>1, <2>1, EndKeeps
<1> QED BY <1>3, <1>4, <1>5

LEMMA RefuseKeeps ==
    ASSUME GraphInv, RefuseImport
    PROVE  GraphInv'
<1> DEFINE i == Head(queue).id
<1>1. Typed /\ BodiesFit /\ CallsFit /\ Begun /\ JobsFit /\ AskersFit /\ EvaluationsFit
  BY DEF GraphInv
<1>2. /\ InCall("drain") /\ queue # <<>> /\ Head(queue).kind = "import"
      /\ Answer(i, "refused", Tail(queue))
      /\ UNCHANGED <<requests, record, body, calls, stopped, outcome, runs, awaits>>
  BY DEF RefuseImport
<1>3. /\ Head(queue) \in Range(queue) /\ Head(queue) = Import(i)
      /\ Tail(queue) \in Seq(Resumptions \cup ImportJobs) /\ Distinct(Tail(queue))
      /\ Range(Tail(queue)) = Range(queue) \ {Import(i)}
  BY <1>1, <1>2, JobTaken, JobKinds
<1>4. i \in DOMAIN imports
  BY <1>1, <1>2, <1>3 DEF JobsFit
<1> HIDE DEF i
<1>5. "refused" \in Answers
  BY DEF Answers
<1>6. /\ imports' \in Seq(ImportRecords) /\ DOMAIN imports' = DOMAIN imports
      /\ \A j \in DOMAIN imports : /\ imports'[j].module = imports[j].module
                                   /\ j # i => imports'[j] = imports[j]
      /\ queue' \in Seq(Resumptions \cup ImportJobs)
      /\ \A job \in Range(queue') : job \in Range(queue) \/ job.kind = "resume"
      /\ JobsFit'
      /\ parked' \in [Modules -> [on : {"nothing", "job", "other", "import"}, id : Nat]]
      /\ \A m \in Modules :
            /\ parked'[m] \in {Nothing, Queued, Another} \cup {OnImport(j) : j \in DOMAIN imports}
            /\ parked'[m] # Nothing <=> parked[m] # Nothing
  BY <1>1, <1>2, <1>3, <1>4, <1>5, Answering
<1>7. CallsChanged
  BY <1>1, <1>2, CallsStand
<1>8. Typed'
  BY <1>1, <1>2, <1>6 DEF Typed, ImportRecords
<1>9. BodiesFit'
  BY <1>1, <1>2, <1>6 DEF BodiesFit, Running, InCall, Top
<1>10. AskersFit'
  <2>1. ASSUME NEW k \in DOMAIN calls', calls'[k].kind = "evaluate", calls[k].asker # 0
        PROVE  calls[k].asker \in DOMAIN imports' /\ imports'[calls[k].asker].answer = "pending"
    <3>1. /\ calls[k].asker \in DOMAIN imports /\ Pending(calls[k].asker)
          /\ Import(calls[k].asker) \notin Range(queue)
      BY <1>1, <1>2, <2>1 DEF AskersFit
    <3>2. calls[k].asker # i
      BY <1>3, <3>1
    <3> QED BY <1>6, <3>1, <3>2 DEF Pending
  <2> QED BY <1>1, <1>6, <1>7, <2>1, AskersStay DEF CallsChanged
<1>11. EvaluationsFit'
  <2>1. ImportsGrow
    BY <1>6 DEF ImportsGrow
  <2> QED BY <1>1, <1>2, <1>7, <2>1, EvaluationsStay DEF CallsChanged
<1>12. Begun'
  BY <1>1, <1>2 DEF Begun
<1> QED BY <1>6, <1>7, <1>8, <1>9, <1>10, <1>11, <1>12 DEF GraphInv, CallsChanged

-----------------------------------------------------------------------------
(* Evaluations that begin, and the one on top when it takes a module.      *)

LEMMA WholeIsItself ==
    ASSUME NEW S, NEW s \in Seq(S)
    PROVE  SubSeq(s, 1, Len(s)) = s
OBVIOUS

LEMMA RestOf ==
    ASSUME NEW S, NEW s \in Seq(S), NEW n \in 0 .. Len(s), NEW t,
           t = SubSeq(s, n + 1, Len(s)), t # <<>>
    PROVE  /\ n + 1 \in 1 .. Len(s) /\ Head(t) = s[n + 1]
           /\ Tail(t) = SubSeq(s, n + 1 + 1, Len(s))
<1>1. Len(s) \in Nat /\ n \in Nat /\ n <= Len(s)
  OBVIOUS
<1>2. n + 1 <= Len(s)
  BY <1>1
<1>3. /\ t \in Seq(S) /\ Len(t) = Len(s) - n
      /\ \A i \in 1 .. Len(s) - n : t[i] = s[n + i]
  BY <1>1, <1>2
<1>4. Head(t) = s[n + 1]
  BY <1>1, <1>2, <1>3
<1> DEFINE r == SubSeq(s, n + 1 + 1, Len(s))
<1>5. /\ r \in Seq(S) /\ Len(r) = Len(s) - n - 1
      /\ \A i \in 1 .. Len(s) - n - 1 : r[i] = s[n + 1 + i]
  BY <1>1, <1>2
<1>6. /\ Tail(t) \in Seq(S) /\ Len(Tail(t)) = Len(s) - n - 1
      /\ \A i \in 1 .. Len(s) - n - 1 : Tail(t)[i] = t[i + 1]
  BY <1>1, <1>2, <1>3
<1> HIDE DEF r
<1>7. \A i \in 1 .. Len(s) - n - 1 : Tail(t)[i] = r[i]
  <2> SUFFICES ASSUME NEW i \in 1 .. Len(s) - n - 1 PROVE Tail(t)[i] = r[i]
    OBVIOUS
  <2>1. i + 1 \in 1 .. Len(s) - n /\ n + (i + 1) = n + 1 + i
    BY <1>1
  <2> QED BY <1>3, <1>5, <1>6, <2>1
<1>8. Tail(t) = r
  BY <1>5, <1>6, <1>7, SeqEqual
<1> QED BY <1>1, <1>2, <1>4, <1>8 DEF r

LEMMA BeginsInto ==
    ASSUME Typed, requests' = requests, NEW entry \in Modules, NEW asker \in Nat,
           NEW k, calls'[k] = Evaluation(Order(entry), asker),
           asker # 0 => imports'[asker].module = entry
    PROVE  0 \in 0 .. Len(Order(entry)') /\ Into(k, entry, 0)'
<1> DEFINE order == Order(entry)
<1>1. Order(entry)' = order
  BY DEF Order
<1>2. order \in Seq(Modules)
  BY OrderOf
<1> HIDE DEF order
<1>3. /\ calls'[k].order = order /\ calls'[k].asker = asker
      /\ calls'[k].current = NoModule
  BY DEF Evaluation, order
<1>4. calls'[k].order = SubSeq(order, 0 + 1, Len(order)) /\ 0 \in 0 .. Len(order)
  BY <1>2, <1>3, WholeIsItself
<1>5. calls'[k].current \notin Modules
  BY <1>3, ModuleAssumption
<1> QED BY <1>1, <1>3, <1>4, <1>5 DEF Into

(* What comes next is the next of the order.                               *)
LEMMA ComingIs ==
    ASSUME GraphInv, InCall("evaluate"), Top.order # <<>>,
           NEW entry \in Modules, NEW n \in 0 .. Len(Order(entry)),
           Into(Len(calls), entry, n)
    PROVE  /\ n + 1 \in 1 .. Len(Order(entry)) /\ Coming = Order(entry)[n + 1]
           /\ Tail(Top.order) = SubSeq(Order(entry), n + 1 + 1, Len(Order(entry)))
           /\ Coming \in Modules
<1>1. Typed /\ Top = calls[Len(calls)]
  BY EvaluationOnTop
<1>2. Order(entry) \in Seq(Modules) /\ \A i \in 1 .. Len(Order(entry)) : Order(entry)[i] \in Modules
  BY <1>1, OrderOf
<1>3. Top.order = SubSeq(Order(entry), n + 1, Len(Order(entry)))
  BY <1>1 DEF Into
<1>4. /\ n + 1 \in 1 .. Len(Order(entry)) /\ Head(Top.order) = Order(entry)[n + 1]
      /\ Tail(Top.order) = SubSeq(Order(entry), n + 1 + 1, Len(Order(entry)))
  BY <1>2, <1>3, RestOf
<1> QED BY <1>2, <1>4 DEF Coming

(* The evaluation on top has taken what was coming.                        *)
LEMMA AdvancesInto ==
    ASSUME GraphInv, InCall("evaluate"), Top.order # <<>>,
           requests' = requests, imports' = imports, NEW top, top = Len(calls),
           NEW entry \in Modules, NEW n \in 0 .. Len(Order(entry)),
           Into(top, entry, n),
           NEW e, calls'[top] = e,
           e.order = Tail(Top.order), e.asker = Top.asker,
           e.current \in {Top.current, Coming},
           \A m \in Modules : record[m].evaluated => record'[m].evaluated,
           \A m \in Modules : record'[m].failed = record[m].failed,
           record'[Coming].evaluated, ~record[Coming].failed,
           \A j \in DOMAIN calls' : j > top => calls'[j].kind # "evaluate"
    PROVE  n + 1 \in 0 .. Len(Order(entry)') /\ Into(top, entry, n + 1)'
<1> DEFINE order == Order(entry)
<1>1. Typed /\ Top = calls[top] /\ top \in Nat
  BY EvaluationOnTop
<1>2. Order(entry)' = order
  BY DEF Order
<1>3. /\ n + 1 \in 1 .. Len(order) /\ Coming = order[n + 1] /\ Coming \in Modules
      /\ Tail(Top.order) = SubSeq(order, n + 1 + 1, Len(order))
  BY ComingIs
<1>4. /\ Len(order) \in Nat /\ \A i \in 1 .. Len(order) : order[i] \in Modules
  BY <1>1, OrderOf
<1>5. /\ calls[top].asker # 0 => imports[calls[top].asker].module = entry
      /\ calls[top].current \in Modules => \E i \in 1 .. n : order[i] = calls[top].current
      /\ \A i \in 1 .. n : record[order[i]].evaluated /\ ~record[order[i]].failed
  BY DEF Into
<1> HIDE DEF order
<1>6. \A i \in 1 .. n + 1 : i \in 1 .. Len(order) /\ (i \in 1 .. n \/ i = n + 1)
  BY <1>3, <1>4, SMTT(30)
<1>7. \A i \in 1 .. n + 1 : record'[order[i]].evaluated /\ ~record'[order[i]].failed
  BY <1>3, <1>4, <1>5, <1>6
<1>8. calls'[top].asker # 0 => imports'[calls'[top].asker].module = entry
  BY <1>1, <1>5
<1>9. calls'[top].current \in Modules => \E i \in 1 .. n + 1 : order[i] = calls'[top].current
  <2>1. calls'[top].current \in {calls[top].current, order[n + 1]}
    BY <1>1, <1>3
  <2>2. n + 1 \in 1 .. n + 1 /\ \A i \in 1 .. n : i \in 1 .. n + 1
    BY <1>3, <1>4
  <2> QED BY <1>5, <2>1, <2>2
<1>10. calls'[top].order = SubSeq(order, n + 1 + 1, Len(order))
  BY <1>3
<1>11. \A i \in 1 .. n + 1 : \A j \in DOMAIN calls' :
          j > top /\ calls'[j].kind = "evaluate" => calls'[j].current # order[i]
  OBVIOUS
<1>12. n + 1 \in 0 .. Len(order)
  BY <1>3, <1>4
<1> QED BY ONLY <1>2, <1>7, <1>8, <1>9, <1>10, <1>11, <1>12 DEF Into, order

(* The evaluations when the one on top takes a module.                     *)
LEMMA AdvanceKeeps ==
    ASSUME GraphInv, InCall("evaluate"), Top.order # <<>>,
           requests' = requests, imports' = imports,
           Len(calls) \in DOMAIN calls',
           \A k \in 1 .. Len(calls) - 1 : calls'[k] = calls[k],
           \A k \in DOMAIN calls' : k \in 1 .. Len(calls) \/ k > Len(calls),
           NEW e, calls'[Len(calls)] = e, e.kind = "evaluate",
           e.order = Tail(Top.order), e.asker = Top.asker,
           \/ e.current = Top.current
           \/ e.current = Coming /\ ~record[Coming].evaluated,
           \A m \in Modules : record[m].evaluated => record'[m].evaluated,
           \A m \in Modules : record'[m].failed = record[m].failed,
           record'[Coming].evaluated, ~record[Coming].failed,
           \A j \in DOMAIN calls' : j > Len(calls) => calls'[j].kind # "evaluate",
           \A job \in Range(queue') : job \in Range(queue)
    PROVE  EvaluationsFit' /\ AskersFit'
<1>0. PICK top : top = Len(calls)
  OBVIOUS
<1>1. /\ Typed /\ Top = calls[top] /\ top \in Nat \ {0} /\ DOMAIN calls = 1 .. top
      /\ Top \in Evaluations
  BY <1>0, EvaluationOnTop
<1>2. AskersFit /\ EvaluationsFit
  BY <1>0 DEF GraphInv
<1>3. Top.kind = "evaluate"
  BY <1>0, <1>1 DEF Evaluations
<1>4. \E entry \in Modules : \E n \in 0 .. Len(Order(entry)) : Into(top, entry, n)
  BY <1>0, EvaluationOnTop
<1>5. PICK entry \in Modules : \E n \in 0 .. Len(Order(entry)) : Into(top, entry, n)
  BY <1>0, <1>4
<1>6. PICK n \in 0 .. Len(Order(entry)) : Into(top, entry, n)
  BY <1>0, <1>5
<1>7. n + 1 \in 0 .. Len(Order(entry)') /\ Into(top, entry, n + 1)'
  BY <1>0, <1>6, AdvancesInto
<1>8. Coming \in Modules
  BY <1>0, <1>6, ComingIs
<1>9. \A k \in DOMAIN calls' : calls'[k].kind = "evaluate" =>
         /\ k \in DOMAIN calls /\ calls[k].kind = "evaluate"
         /\ k = top \/ (k \in 1 .. top - 1 /\ Alike(k))
         /\ calls'[k].asker = calls[k].asker
  <2> SUFFICES ASSUME NEW k \in DOMAIN calls', calls'[k].kind = "evaluate"
               PROVE  /\ k \in DOMAIN calls /\ calls[k].kind = "evaluate"
                      /\ k = top \/ (k \in 1 .. top - 1 /\ Alike(k))
                      /\ calls'[k].asker = calls[k].asker
    OBVIOUS
  <2>1. k \in 1 .. top
    BY <1>0
  <2>2. CASE k = top
    BY <1>0, <1>1, <1>3, <2>2
  <2>3. CASE k # top
    <3>1. k \in 1 .. top - 1
      BY <1>0, <1>1, <2>1, <2>3
    <3>2. calls'[k] = calls[k]
      BY <1>0, <3>1
    <3> QED BY <1>0, <1>1, <2>1, <3>1, <3>2 DEF Alike
  <2> QED BY <1>0, <2>2, <2>3
<1>10. EvaluationsFit'
  <2> SUFFICES ASSUME NEW k \in DOMAIN calls', calls'[k].kind = "evaluate"
               PROVE  \E x \in Modules : \E i \in 0 .. Len(Order(x)') : Into(k, x, i)'
    BY <1>0 DEF EvaluationsFit
  <2>1. CASE k = top
    BY <1>0, <1>7, <2>1
  <2>2. CASE k \in 1 .. top - 1 /\ Alike(k)
    <3>1. PICK x \in Modules : \E i \in 0 .. Len(Order(x)) : Into(k, x, i)
      BY <1>0, <1>2, <1>9, <2>2 DEF EvaluationsFit
    <3>2. PICK i \in 0 .. Len(Order(x)) : Into(k, x, i)
      BY <1>0, <3>1
    <3>3. \A j \in DOMAIN calls' : j > k /\ calls'[j].kind = "evaluate" =>
             \/ SameCurrent(j)
             \/ calls'[j].current \notin Modules
             \/ calls'[j].current \in Modules /\ ~record[calls'[j].current].evaluated
      <4> SUFFICES ASSUME NEW j \in DOMAIN calls', j > k, calls'[j].kind = "evaluate"
                   PROVE  \/ SameCurrent(j)
                          \/ calls'[j].current \in Modules /\ ~record[calls'[j].current].evaluated
        OBVIOUS
      <4>1. CASE j = top
        <5>1. calls'[j] = e /\ calls[j] = Top
          BY <1>0, <1>1, <4>1
        <5> QED BY <1>0, <1>1, <1>3, <1>8, <4>1, <5>1 DEF SameCurrent
      <4>2. CASE Alike(j)
        BY <1>0, <4>2 DEF Alike, SameCurrent
      <4> QED BY <1>0, <1>9, <4>1, <4>2
    <3>4. ImportsGrow
      BY <1>0 DEF ImportsGrow
    <3>5. i \in 0 .. Len(Order(x)') /\ Into(k, x, i)'
      BY <1>0, <1>1, <1>2, <2>2, <3>2, <3>3, <3>4, StillInto
    <3> QED BY <1>0, <3>5
  <2> QED BY <1>0, <1>9, <2>1, <2>2
<1>11. AskersFit'
  <2> SUFFICES ASSUME NEW k \in DOMAIN calls', calls'[k].kind = "evaluate", calls'[k].asker # 0
               PROVE  /\ calls'[k].asker \in DOMAIN imports /\ Pending(calls'[k].asker)
                      /\ Import(calls'[k].asker) \notin Range(queue')
                      /\ \A j \in DOMAIN calls' :
                            calls'[j].kind = "evaluate" /\ calls'[j].asker = calls'[k].asker => j = k
    BY <1>0 DEF AskersFit, Pending
  <2> QED BY <1>0, <1>2, <1>9 DEF AskersFit
<1> QED BY <1>0, <1>10, <1>11

LEMMA TopStays ==
    ASSUME GraphInv, InCall("evaluate"), ~Threw(Top),
           calls' \in Seq(CallRecords), Len(calls) <= Len(calls'),
           \A k \in 1 .. Len(calls) - 1 : calls'[k] = calls[k],
           NEW e, calls'[Len(calls)] = e, e.kind = "evaluate",
           e.asker = Top.asker, e.result = Top.result,
           Len(calls') # Len(calls) => e.current \in Modules
    PROVE  \A k \in 1 .. Len(calls) : Fits(k)'
<1> DEFINE n == Len(calls)
<1>1. /\ Typed /\ Top = calls[n] /\ n \in Nat \ {0} /\ DOMAIN calls = 1 .. n
      /\ Top \in Evaluations
  BY EvaluationOnTop
<1>2. CallsFit /\ Top.kind = "evaluate"
  BY <1>1 DEF GraphInv, Evaluations
<1>3. PICK l \in Nat : l = Len(calls') /\ DOMAIN calls' = 1 .. l /\ n <= l
  OBVIOUS
<1>4. EvaluationFits(n)
  BY <1>1, <1>2 DEF CallsFit, Fits
<1> HIDE DEF n
<1> SUFFICES ASSUME NEW k \in 1 .. n PROVE Fits(k)'
  BY DEF n
<1>5. CASE k = n
  <2>1. Is(k - 1, "drain") => Is(k - 1, "drain")'
    <3> SUFFICES ASSUME Is(k - 1, "drain") PROVE Is(k - 1, "drain")'
      OBVIOUS
    <3>1. k - 1 \in 1 .. n - 1
      BY <1>1, <1>5 DEF Is
    <3>2. calls'[k - 1] = calls[k - 1]
      BY <3>1 DEF n
    <3>3. k - 1 \in DOMAIN calls'
      <4>1. k - 1 \in 1 .. l
        BY <1>1, <1>3, <3>1
      <4> QED BY <1>3, <4>1
    <3> QED BY <3>2, <3>3 DEF Is
  <2>2. calls'[n] = e /\ e.result \notin Modules /\ (e.asker = 0 <=> n = 1)
    BY <1>1, <1>4 DEF EvaluationFits, Threw, n
  <2>3. n < Len(calls') => e.current \in Modules
    BY <1>1 DEF n
  <2> QED BY <1>4, <1>5, <2>1, <2>2, <2>3 DEF Fits, EvaluationFits
<1>6. CASE k # n
  <2>1. k \in 1 .. n - 1 /\ n - 1 \in Nat /\ k < Len(calls) /\ k < Len(calls')
    <3>1. k \in 1 .. n - 1 /\ n - 1 \in Nat /\ k < n /\ k < l
      BY <1>1, <1>3, <1>6
    <3> QED BY <1>3, <3>1 DEF n
  <2>2. \A i \in 1 .. n - 1 : i \in DOMAIN calls /\ calls'[i] = calls[i]
    BY <1>1 DEF n
  <2> QED BY <1>1, <1>2, <2>1, <2>2, BelowFits
<1> QED BY <1>5, <1>6

LEMMA TakingTypes ==
    ASSUME GraphInv, InCall("evaluate"), Top.order # <<>>
    PROVE  /\ Coming \in Modules
           /\ Taken \in Evaluations /\ Taken \in CallRecords /\ Taken.kind = "evaluate"
           /\ Taken.order = Tail(Top.order) /\ Taken.asker = Top.asker
           /\ Taken.current = Coming /\ Taken.result = Top.result
           /\ LET passed == [Top EXCEPT !.order = Tail(@)]
              IN  /\ passed \in Evaluations /\ passed \in CallRecords /\ passed.kind = "evaluate"
                  /\ passed.order = Tail(Top.order) /\ passed.asker = Top.asker
                  /\ passed.current = Top.current /\ passed.result = Top.result
<1>1. Top \in Evaluations
  BY EvaluationOnTop
<1>2. Top.order \in Seq(Modules)
  BY <1>1 DEF Evaluations
<1>3. Coming \in Modules /\ Tail(Top.order) \in Seq(Modules)
  BY <1>2 DEF Coming
<1>4. ASSUME NEW e \in Evaluations, NEW order \in Seq(Modules), NEW m \in Modules
      PROVE  /\ LET t == [e EXCEPT !.order = order, !.current = m]
                IN  /\ t \in Evaluations /\ t.kind = "evaluate"
                    /\ t.order = order /\ t.asker = e.asker
                    /\ t.current = m /\ t.result = e.result
             /\ LET t == [e EXCEPT !.order = order]
                IN  /\ t \in Evaluations /\ t.kind = "evaluate"
                    /\ t.order = order /\ t.asker = e.asker
                    /\ t.current = e.current /\ t.result = e.result
  BY <1>4 DEF Evaluations
<1>5. Taken = [Top EXCEPT !.order = Tail(Top.order), !.current = Coming]
  BY DEF Taken
<1>6. /\ Taken \in Evaluations /\ Taken.kind = "evaluate"
      /\ Taken.order = Tail(Top.order) /\ Taken.asker = Top.asker
      /\ Taken.current = Coming /\ Taken.result = Top.result
  <2>1. PICK e \in Evaluations : e = Top
    BY <1>1
  <2>2. PICK order \in Seq(Modules) : order = Tail(Top.order)
    BY <1>3
  <2>3. PICK m \in Modules : m = Coming
    BY <1>3
  <2> DEFINE t == [e EXCEPT !.order = order, !.current = m]
  <2>4. /\ t \in Evaluations /\ t.kind = "evaluate" /\ t.order = order
        /\ t.asker = e.asker /\ t.current = m /\ t.result = e.result
    BY DEF Evaluations
  <2>5. Taken = t
    BY <1>5, <2>1, <2>2, <2>3
  <2> HIDE DEF t
  <2> QED BY <2>1, <2>2, <2>3, <2>4, <2>5
<1> DEFINE passed == [Top EXCEPT !.order = Tail(@)]
<1>7. /\ passed \in Evaluations /\ passed.kind = "evaluate"
      /\ passed.order = Tail(Top.order) /\ passed.asker = Top.asker
      /\ passed.current = Top.current /\ passed.result = Top.result
  BY <1>1, <1>3, <1>4
<1>8. Taken \in CallRecords /\ passed \in CallRecords
  BY <1>6, <1>7 DEF CallRecords
<1> HIDE DEF passed
<1> QED BY <1>3, <1>6, <1>7, <1>8 DEF passed

LEMMA PassOverKeeps ==
    ASSUME GraphInv, PassOver
    PROVE  GraphInv'
<1> DEFINE n == Len(calls)
           passed == [Top EXCEPT !.order = Tail(@)]
<1>1. Typed /\ BodiesFit /\ CallsFit /\ Begun /\ JobsFit
  BY DEF GraphInv
<1>2. /\ InCall("evaluate") /\ ~Threw(Top) /\ Top.order # <<>>
      /\ ~record[Coming].failed /\ record[Coming].evaluated
      /\ calls' = Append(Front(calls), passed)
      /\ UNCHANGED <<requests, record, body, parked, queue, imports, stopped, outcome,
                     runs, awaits>>
  BY DEF PassOver
<1>3. /\ calls # <<>> /\ n \in Nat \ {0} /\ DOMAIN calls = 1 .. n
      /\ \A m \in Modules : body[m] # "running"
  BY <1>2, EvaluationOnTop
<1>4. /\ passed \in CallRecords /\ passed.kind = "evaluate"
      /\ passed.order = Tail(Top.order) /\ passed.asker = Top.asker
      /\ passed.current = Top.current /\ passed.result = Top.result
  BY <1>2, TakingTypes
<1> HIDE DEF passed
<1>5. /\ calls' \in Seq(CallRecords) /\ Len(calls') = n /\ DOMAIN calls' = 1 .. n
      /\ \A k \in 1 .. n - 1 : calls'[k] = calls[k]
      /\ calls'[n] = passed /\ Last(calls') = passed
  <2>1. calls \in Seq(CallRecords) /\ calls # <<>> /\ passed \in CallRecords
    BY <1>1, <1>3, <1>4 DEF Typed
  <2> DEFINE t == Append(Front(calls), passed)
  <2>2. /\ t \in Seq(CallRecords) /\ Len(t) = Len(calls) /\ DOMAIN t = 1 .. Len(calls)
        /\ Last(t) = passed
        /\ \A k \in 1 .. Len(calls) - 1 : t[k] = calls[k]
        /\ t[Len(calls)] = passed
    BY ONLY <2>1, TopReplaced
  <2> HIDE DEF t
  <2>3. calls' = t
    BY <1>2 DEF t
  <2> QED BY <2>2, <2>3
<1>6. CallsFit'
  <2>1. Len(calls) <= Len(calls') /\ Len(calls') = Len(calls)
    BY <1>3, <1>5
  <2>2. \A k \in 1 .. Len(calls) : Fits(k)'
    BY <1>2, <1>4, <1>5, <2>1, TopStays
  <2> QED BY <1>5, <2>2 DEF CallsFit
<1>7. EvaluationsFit' /\ AskersFit'
  <2>1. n \in DOMAIN calls' /\ \A k \in DOMAIN calls' : k \in 1 .. n /\ ~(k > n)
    BY <1>3, <1>5
  <2> QED BY <1>2, <1>4, <1>5, <2>1, AdvanceKeeps
<1>8. Typed'
  BY <1>1, <1>2, <1>5 DEF Typed
<1>9. BodiesFit'
  <2>1. \A x : ~Running(x)'
    BY <1>4, <1>5 DEF Running, InCall
  <2> QED BY <1>1, <1>2, <1>3, <2>1 DEF BodiesFit
<1>10. Begun' /\ JobsFit'
  BY <1>1, <1>2 DEF Begun, JobsFit, Pending
<1> QED BY <1>6, <1>7, <1>8, <1>9, <1>10 DEF GraphInv

(* What a body's start makes of the calls.                                 *)
LEMMA TwoMore ==
    ASSUME NEW S, NEW s \in Seq(S), NEW a \in S, NEW b \in S
    PROVE  s \o <<a, b>> = Append(Append(s, a), b)
<1> DEFINE t == s \o <<a, b>>
           u == Append(Append(s, a), b)
<1>1. /\ t \in Seq(S) /\ Len(t) = Len(s) + 2 /\ Len(s) \in Nat
      /\ \A k \in 1 .. Len(s) + 2 :
            t[k] = IF k <= Len(s) THEN s[k] ELSE IF k = Len(s) + 1 THEN a ELSE b
  OBVIOUS
<1>2. /\ u \in Seq(S) /\ Len(u) = Len(s) + 2
      /\ \A k \in 1 .. Len(s) + 2 :
            u[k] = IF k <= Len(s) THEN s[k] ELSE IF k = Len(s) + 1 THEN a ELSE b
  OBVIOUS
<1> HIDE DEF t, u
<1>3. t = u
  BY <1>1, <1>2, SeqEqual
<1> QED BY <1>3 DEF t, u

LEMMA NoMore ==
    ASSUME NEW S, NEW s \in Seq(S)
    PROVE  s \o <<>> = s
OBVIOUS

LEMMA OneMore ==
    ASSUME NEW S, NEW s \in Seq(S), NEW a \in S
    PROVE  s \o <<a>> = Append(s, a)
OBVIOUS

(* The evaluation on top has begun an asynchronous module's body, or one   *)
(* that the stopped machine does not run, or a synchronous one.            *)
StartedCalls(m) ==
    LET based == Append(Front(calls), Taken)
    IN  \/ m \notin Async /\ calls' = Append(based, Body(m))
        \/ m \in Async /\ ~stopped /\ calls' = Append(Append(based, Waiting(m)), Body(m))
        \/ m \in Async /\ stopped /\ calls' = Append(based, Waiting(m))

LEMMA StartIs ==
    ASSUME GraphInv, StartBody
    PROVE  StartedCalls(Coming)
<1> DEFINE f == Front(calls)
           w == Waiting(Coming)
           b == Body(Coming)
<1>1. InCall("evaluate") /\ Top.order # <<>>
  BY DEF StartBody
<1>2. calls \in Seq(CallRecords) /\ calls # <<>>
  <2>1. Typed /\ calls # <<>>
    BY ONLY GraphInv, <1>1, EvaluationOnTop
  <2> QED BY ONLY <2>1 DEF Typed
<1>3. f \in Seq(CallRecords)
  BY <1>2, TopOf
<1>4. Taken \in CallRecords /\ w \in CallRecords /\ b \in CallRecords
  BY <1>1, TakingTypes, CallTypes
<1>5. /\ Coming \notin Async => calls' = f \o <<Taken, b>>
      /\ Coming \in Async =>
            calls' = f \o <<Taken, w>> \o (IF stopped THEN <<>> ELSE <<b>>)
  BY DEF StartBody
<1> HIDE DEF f, w, b
<1>6. f \o <<Taken, b>> = Append(Append(f, Taken), b)
  BY <1>3, <1>4, TwoMore
<1>7. f \o <<Taken, w>> = Append(Append(f, Taken), w)
  BY <1>3, <1>4, TwoMore
<1>8. Append(Append(f, Taken), w) \in Seq(CallRecords)
  BY <1>3, <1>4, PushedOn
<1>9. CASE Coming \notin Async
  BY <1>5, <1>6, <1>9 DEF StartedCalls, f, b
<1>10. CASE Coming \in Async /\ stopped
  BY <1>5, <1>7, <1>8, <1>10, NoMore DEF StartedCalls, f, w
<1>11. CASE Coming \in Async /\ ~stopped
  BY <1>4, <1>5, <1>7, <1>8, <1>11, OneMore DEF StartedCalls, f, w, b
<1> QED BY <1>9, <1>10, <1>11

LEMMA StartedFit ==
    ASSUME GraphInv, StartBody
    PROVE  /\ calls' \in Seq(CallRecords) /\ CallsFit'
           /\ Len(calls) \in DOMAIN calls' /\ calls'[Len(calls)] = Taken
           /\ \A k \in 1 .. Len(calls) - 1 : calls'[k] = calls[k]
           /\ \A k \in DOMAIN calls' : k \in 1 .. Len(calls) \/ k > Len(calls)
           /\ \A k \in DOMAIN calls' : k > Len(calls) => calls'[k].kind # "evaluate"
           /\ Coming \in Async /\ stopped => ~InCall("body")'
           /\ ~(Coming \in Async /\ stopped) => calls' # <<>> /\ Last(calls') = Body(Coming)
<1>1. InCall("evaluate") /\ ~Threw(Top) /\ Top.order # <<>>
  BY DEF StartBody
<1>2. /\ Typed /\ calls \in Seq(CallRecords) /\ calls # <<>>
  <2>1. Typed /\ calls # <<>>
    <3>1. InCall("evaluate")
      BY ONLY <1>1
    <3> QED BY ONLY GraphInv, <3>1, EvaluationOnTop
  <2> QED BY ONLY <2>1 DEF Typed
<1>3. PICK n \in Nat \ {0} : n = Len(calls)
  BY <1>1, EvaluationOnTop, Zenon
<1>4. /\ Taken \in CallRecords /\ Taken.kind = "evaluate" /\ Taken.asker = Top.asker
      /\ Taken.result = Top.result /\ Taken.current = Coming /\ Coming \in Modules
  BY <1>1, TakingTypes
<1>5. PICK m \in Modules : m = Coming
  BY <1>4
<1>6. PICK taken \in CallRecords : taken = Taken
  BY <1>4
<1>7. PICK based : based = Append(Front(calls), Taken)
  OBVIOUS
<1>8. /\ based \in Seq(CallRecords) /\ Len(based) = n /\ DOMAIN based = 1 .. n
      /\ \A k \in 1 .. n - 1 : based[k] = calls[k]
      /\ based[n] = taken
  <2> DEFINE t == Append(Front(calls), taken)
  <2>1. /\ t \in Seq(CallRecords) /\ Len(t) = Len(calls) /\ DOMAIN t = 1 .. Len(calls)
        /\ \A k \in 1 .. Len(calls) - 1 : t[k] = calls[k]
        /\ t[Len(calls)] = taken
    BY ONLY <1>2, <1>6, TopReplaced
  <2>2. based = t
    BY <1>6, <1>7
  <2> HIDE DEF t
  <2> QED BY <1>3, <2>1, <2>2
<1>9. /\ Body(m) \in CallRecords /\ Body(m).kind = "body" /\ Body(m).module = m
      /\ Waiting(m) \in CallRecords /\ Waiting(m).kind = "wait" /\ Waiting(m).module = m
  BY CallTypes DEF Body, Waiting
<1>10. \/ m \notin Async /\ calls' = Append(based, Body(m))
       \/ m \in Async /\ ~stopped /\ calls' = Append(Append(based, Waiting(m)), Body(m))
       \/ m \in Async /\ stopped /\ calls' = Append(based, Waiting(m))
  BY <1>5, <1>7, StartIs DEF StartedCalls
<1>11. PICK w : w = Waiting(m) /\ w \in CallRecords
  BY <1>9
<1>12. PICK b : b = Body(m) /\ b \in CallRecords
  BY <1>9
<1>13. ASSUME NEW l \in Nat, l >= n, calls' \in Seq(CallRecords), Len(calls') = l + 1,
              \A k \in 1 .. n : calls'[k] = based[k]
       PROVE  /\ n \in DOMAIN calls' /\ calls'[n] = taken
              /\ \A k \in 1 .. n - 1 : calls'[k] = calls[k]
              /\ \A k \in DOMAIN calls' : k \in 1 .. n \/ k \in n + 1 .. l + 1
              /\ \A k \in 1 .. n : Fits(k)'
  <2>1. n \in DOMAIN calls' /\ \A k \in DOMAIN calls' : k \in 1 .. n \/ k \in n + 1 .. l + 1
    BY <1>13
  <2>2. \A k \in 1 .. n - 1 : k \in 1 .. n
    OBVIOUS
  <2>3. calls'[n] = taken /\ \A k \in 1 .. n - 1 : calls'[k] = calls[k]
    BY <1>8, <1>13, <2>2
  <2>4. Len(calls) <= Len(calls')
    BY <1>3, <1>13
  <2>5. \A k \in 1 .. n : Fits(k)'
    BY <1>1, <1>3, <1>4, <1>6, <1>13, <2>3, <2>4, TopStays
  <2> QED BY <2>1, <2>3, <2>5
<1>14. CASE m \notin Async /\ calls' = Append(based, Body(m))
  <2>1. /\ calls' \in Seq(CallRecords) /\ Len(calls') = n + 1 /\ DOMAIN calls' = 1 .. n + 1
        /\ \A k \in 1 .. n : calls'[k] = based[k]
        /\ calls'[n + 1] = b /\ calls' # <<>> /\ Last(calls') = b
    <3>1. PICK t : t = calls'
      OBVIOUS
    <3>2. b \in CallRecords /\ t = Append(based, b)
      BY ONLY <1>12, <1>14, <3>1
    <3>3. /\ t \in Seq(CallRecords) /\ Len(t) = n + 1 /\ DOMAIN t = 1 .. n + 1
          /\ \A k \in 1 .. n : t[k] = based[k]
          /\ t[n + 1] = b
      BY ONLY <1>8, <3>2, PushedOn
    <3>4. t # <<>> /\ Last(t) = b
      BY ONLY <3>3, n \in Nat \ {0} DEF Last
    <3> QED BY ONLY <3>1, <3>3, <3>4
  <2>2. /\ n \in DOMAIN calls' /\ calls'[n] = taken
        /\ \A k \in 1 .. n - 1 : calls'[k] = calls[k]
        /\ \A k \in DOMAIN calls' : k \in 1 .. n \/ k \in n + 1 .. n + 1
        /\ \A k \in 1 .. n : Fits(k)'
    BY <1>13, <2>1
  <2>3. ASSUME NEW k, k = n + 1 PROVE Fits(k)'
    <3>1. calls'[k] = b /\ k = Len(calls') /\ Is(k - 1, "evaluate")' /\ calls'[k - 1].current = m
      BY <1>4, <1>5, <1>6, <2>1, <2>2, <2>3 DEF Is
    <3> QED BY <1>9, <1>12, <1>14, <3>1 DEF Fits, BodyFits
  <2>4. \A k \in DOMAIN calls' : k \in 1 .. n \/ k = n + 1
    BY <2>1
  <2>5. \A k \in DOMAIN calls' : k > n => calls'[k].kind # "evaluate"
    BY <1>9, <1>12, <2>1, <2>4
  <2>6. CallsFit'
    BY <2>2, <2>3, <2>4 DEF CallsFit
  <2> QED BY <1>3, <1>5, <1>6, <1>12, <1>14, <2>1, <2>2, <2>4, <2>5, <2>6
<1>15. CASE m \in Async /\ stopped /\ calls' = Append(based, Waiting(m))
  <2>1. /\ calls' \in Seq(CallRecords) /\ Len(calls') = n + 1 /\ DOMAIN calls' = 1 .. n + 1
        /\ \A k \in 1 .. n : calls'[k] = based[k]
        /\ calls'[n + 1] = w /\ calls' # <<>> /\ Last(calls') = w
    <3>1. PICK t : t = calls'
      OBVIOUS
    <3>2. w \in CallRecords /\ t = Append(based, w)
      BY ONLY <1>11, <1>15, <3>1
    <3>3. /\ t \in Seq(CallRecords) /\ Len(t) = n + 1 /\ DOMAIN t = 1 .. n + 1
          /\ \A k \in 1 .. n : t[k] = based[k]
          /\ t[n + 1] = w
      BY ONLY <1>8, <3>2, PushedOn
    <3>4. t # <<>> /\ Last(t) = w
      BY ONLY <3>3, n \in Nat \ {0} DEF Last
    <3> QED BY ONLY <3>1, <3>3, <3>4
  <2>2. /\ n \in DOMAIN calls' /\ calls'[n] = taken
        /\ \A k \in 1 .. n - 1 : calls'[k] = calls[k]
        /\ \A k \in DOMAIN calls' : k \in 1 .. n \/ k \in n + 1 .. n + 1
        /\ \A k \in 1 .. n : Fits(k)'
    BY <1>13, <2>1
  <2>3. ASSUME NEW k, k = n + 1 PROVE Fits(k)'
    <3>1. calls'[k] = w /\ k = Len(calls') /\ Is(k - 1, "evaluate")' /\ calls'[k - 1].current = m
      BY <1>4, <1>5, <1>6, <2>1, <2>2, <2>3 DEF Is
    <3> QED BY <1>9, <1>11, <1>15, <3>1 DEF Fits, WaitFits
  <2>4. \A k \in DOMAIN calls' : k \in 1 .. n \/ k = n + 1
    BY <2>1
  <2>5. \A k \in DOMAIN calls' : k > n => calls'[k].kind # "evaluate"
    BY <1>9, <1>11, <2>1, <2>4
  <2>6. CallsFit'
    BY <2>2, <2>3, <2>4 DEF CallsFit
  <2>7. ~InCall("body")'
    BY <1>9, <1>11, <2>1 DEF InCall
  <2> QED BY <1>3, <1>5, <1>6, <1>15, <2>1, <2>2, <2>4, <2>5, <2>6, <2>7
<1>16. CASE m \in Async /\ ~stopped /\ calls' = Append(Append(based, Waiting(m)), Body(m))
  <2>1. PICK t : t = Append(based, w)
    OBVIOUS
  <2>2. /\ t \in Seq(CallRecords) /\ Len(t) = n + 1 /\ DOMAIN t = 1 .. n + 1
        /\ \A k \in 1 .. n : t[k] = based[k]
        /\ t[n + 1] = w
    <3>1. w \in CallRecords /\ t = Append(based, w)
      BY ONLY <1>11, <2>1
    <3> QED BY ONLY <1>8, <3>1, PushedOn
  <2>3. calls' = Append(t, b)
    BY <1>11, <1>12, <1>16, <2>1
  <2>4. /\ calls' \in Seq(CallRecords) /\ Len(calls') = n + 1 + 1 /\ DOMAIN calls' = 1 .. n + 1 + 1
        /\ \A k \in 1 .. n + 1 : calls'[k] = t[k]
        /\ calls'[n + 1 + 1] = b
    BY <1>12, <2>2, <2>3, PushedOn
  <2>5. calls' # <<>> /\ Last(calls') = b
    BY <2>4 DEF Last
  <2>6. /\ \A k \in 1 .. n : calls'[k] = based[k]
        /\ calls'[n + 1] = w
    BY <2>2, <2>4
  <2>7. /\ n \in DOMAIN calls' /\ calls'[n] = taken
        /\ \A k \in 1 .. n - 1 : calls'[k] = calls[k]
        /\ \A k \in DOMAIN calls' : k \in 1 .. n \/ k \in n + 1 .. n + 1 + 1
        /\ \A k \in 1 .. n : Fits(k)'
    BY <1>13, <2>4, <2>6
  <2>8. ASSUME NEW k, k = n + 1 PROVE Fits(k)'
    <3>1. calls'[k] = w /\ Is(k - 1, "evaluate")' /\ calls'[k - 1].current = m
      BY <1>4, <1>5, <1>6, <2>6, <2>7, <2>8 DEF Is
    <3> QED BY <1>9, <1>11, <1>16, <3>1 DEF Fits, WaitFits
  <2>9. ASSUME NEW k, k = n + 1 + 1 PROVE Fits(k)'
    <3>1. calls'[k] = b /\ k = Len(calls') /\ Is(k - 1, "wait")' /\ calls'[k - 1].module = m
      BY <1>9, <1>11, <2>4, <2>6, <2>9 DEF Is
    <3> QED BY <1>9, <1>12, <1>16, <3>1 DEF Fits, BodyFits
  <2>10. \A k \in DOMAIN calls' : k \in 1 .. n \/ k = n + 1 \/ k = n + 1 + 1
    BY <2>4
  <2>11. \A k \in DOMAIN calls' : k > n => calls'[k].kind # "evaluate"
    BY <1>9, <1>11, <1>12, <2>4, <2>6, <2>10
  <2>12. CallsFit'
    BY <2>7, <2>8, <2>9, <2>10 DEF CallsFit
  <2>13. \A k \in DOMAIN calls' : k \in 1 .. n \/ k > n
    BY <2>10
  <2> QED BY <1>3, <1>5, <1>6, <1>12, <1>16, <2>4, <2>5, <2>7, <2>11, <2>12, <2>13
<1> QED BY <1>10, <1>14, <1>15, <1>16

LEMMA StartKeeps ==
    ASSUME GraphInv, StartBody
    PROVE  GraphInv'
<1>1. Typed /\ BodiesFit /\ CallsFit /\ Begun /\ JobsFit
  BY DEF GraphInv
<1>2. InCall("evaluate") /\ ~Threw(Top) /\ Top.order # <<>> /\ ~record[Coming].failed
      /\ ~record[Coming].evaluated
  BY DEF StartBody
<1>3. PICK m \in Modules : m = Coming
  BY <1>2, TakingTypes
<1>4. PICK to : to = IF m \in Async /\ stopped THEN "stopped" ELSE "running"
  OBVIOUS
<1>5. /\ record' = [record EXCEPT ![m].evaluated = TRUE]
      /\ body' = [body EXCEPT ![m] = to]
      /\ stopped' \in BOOLEAN
      /\ UNCHANGED <<requests, parked, queue, imports, outcome, runs, awaits>>
  <2>1. /\ record' = [record EXCEPT ![m].evaluated = TRUE]
        /\ UNCHANGED <<requests, parked, queue, imports, outcome, runs, awaits>>
    BY <1>3 DEF StartBody
  <2>2. CASE m \in Async
    <3>1. body' = [body EXCEPT ![m] = IF stopped THEN "stopped" ELSE "running"] /\ stopped' = stopped
      BY <1>3, <2>2 DEF StartBody
    <3> QED BY <1>1, <1>4, <2>1, <2>2, <3>1 DEF Typed
  <2>3. CASE m \notin Async
    <3>1. body' = [body EXCEPT ![m] = "running"] /\ stopped' = FALSE
      BY <1>3, <2>3 DEF StartBody
    <3> QED BY <1>4, <2>1, <2>3, <3>1
  <2> QED BY <2>2, <2>3
<1>6. /\ record' \in [Modules -> [evaluated : BOOLEAN, failed : BOOLEAN]]
      /\ \A x \in Modules : /\ record'[x].evaluated <=> x = m \/ record[x].evaluated
                            /\ record'[x].failed = record[x].failed
  <2> DEFINE new == [record[m] EXCEPT !.evaluated = TRUE]
  <2>1. record \in [Modules -> [evaluated : BOOLEAN, failed : BOOLEAN]]
    BY <1>1 DEF Typed
  <2>2. record' = [record EXCEPT ![m] = new]
    BY <1>5
  <2>3. /\ new \in [evaluated : BOOLEAN, failed : BOOLEAN]
        /\ new.evaluated /\ new.failed = record[m].failed
    <3>1. record[m] \in [evaluated : BOOLEAN, failed : BOOLEAN]
      BY <2>1
    <3> QED BY <3>1
  <2> HIDE DEF new
  <2>4. \A x \in Modules : record'[x] = IF x = m THEN new ELSE record[x]
    BY <2>1, <2>2
  <2>5. record' \in [Modules -> [evaluated : BOOLEAN, failed : BOOLEAN]]
    BY <2>1, <2>2, <2>3
  <2> QED BY <2>3, <2>4, <2>5
<1>7. \A x \in Modules : body'[x] = IF x = m THEN to ELSE body[x]
  BY <1>1, <1>5 DEF Typed
<1>8. to \in {"stopped", "running"} /\ (to = "running" <=> ~(m \in Async /\ stopped))
  BY <1>4
<1>9. /\ calls' \in Seq(CallRecords) /\ CallsFit'
      /\ Len(calls) \in DOMAIN calls' /\ calls'[Len(calls)] = Taken
      /\ \A k \in 1 .. Len(calls) - 1 : calls'[k] = calls[k]
      /\ \A k \in DOMAIN calls' : k \in 1 .. Len(calls) \/ k > Len(calls)
      /\ \A k \in DOMAIN calls' : k > Len(calls) => calls'[k].kind # "evaluate"
      /\ m \in Async /\ stopped => ~InCall("body")'
      /\ ~(m \in Async /\ stopped) => calls' # <<>> /\ Last(calls') = Body(m)
  BY <1>3, StartedFit
<1>10. EvaluationsFit' /\ AskersFit'
  <2>1. /\ Taken.kind = "evaluate" /\ Taken.order = Tail(Top.order)
        /\ Taken.asker = Top.asker /\ Taken.current = Coming
    BY <1>2, TakingTypes
  <2> QED BY <1>2, <1>3, <1>5, <1>6, <1>9, <2>1, AdvanceKeeps
<1>11. Typed'
  BY <1>1, <1>5, <1>6, <1>7, <1>8, <1>9 DEF Typed, BodyStates
<1>12. body[m] = "idle" /\ \A x \in Modules : body[x] # "running"
  BY <1>1, <1>2, <1>3, EvaluationOnTop DEF Begun
<1>13. BodiesFit'
  <2>1. \A x \in Modules : Running(x)' <=> (to = "running" /\ x = m)
    <3>1. CASE m \in Async /\ stopped
      BY <1>8, <1>9, <3>1 DEF Running
    <3>2. CASE ~(m \in Async /\ stopped)
      <4>1. Body(m).kind = "body" /\ Body(m).module = m
        BY DEF Body
      <4> QED BY <1>8, <1>9, <3>2, <4>1 DEF Running, InCall, Top
    <3> QED BY <3>1, <3>2
  <2>2. \A x \in Modules : body'[x] = "running" <=> Running(x)'
    BY <1>7, <1>12, <2>1
  <2>3. \A x \in Modules :
           /\ parked[x] \in {Nothing, Queued, Another} \cup {OnImport(i) : i \in DOMAIN imports}
           /\ parked[x] # Nothing <=> body'[x] = "parked"
           /\ body'[x] = "parked" => x \in Async
    BY <1>1, <1>7, <1>8, <1>12 DEF BodiesFit
  <2> QED BY <1>5, <2>2, <2>3 DEF BodiesFit
<1>14. Begun'
  BY <1>1, <1>6, <1>7, <1>8 DEF Begun
<1>15. JobsFit'
  BY <1>1, <1>5 DEF JobsFit, Pending
<1> QED BY <1>9, <1>10, <1>11, <1>13, <1>14, <1>15 DEF GraphInv

LEMMA OneOrNone ==
    ASSUME NEW S
    PROVE  /\ <<>> \in Seq(S)
           /\ \A x \in S : <<x>> \in Seq(S) /\ Len(<<x>>) = 1 /\ DOMAIN <<x>> = {1}
                          /\ <<x>>[1] = x
OBVIOUS

LEMMA RunGraphKeeps ==
    ASSUME GraphInv, NEW entry \in Modules, RunGraph(entry)
    PROVE  GraphInv'
<1> DEFINE e == Evaluation(Order(entry), 0)
<1>1. Typed /\ BodiesFit /\ CallsFit /\ Begun /\ JobsFit /\ AskersFit /\ EvaluationsFit
  BY DEF GraphInv
<1>2. /\ calls = <<>> /\ runs < MaxRuns /\ runs' = runs + 1
      /\ \/ calls' = <<e>> /\ outcome' = "none"
         \/ calls' = calls /\ outcome' = "unlinked"
      /\ UNCHANGED <<requests, record, body, parked, queue, imports, stopped, awaits>>
  BY DEF RunGraph
<1>3. /\ e \in CallRecords /\ e.kind = "evaluate" /\ e.asker = 0
      /\ e.current = NoModule /\ e.result = "value" /\ "value" \notin Modules
  <2>1. Order(entry) \in Seq(Modules)
    BY <1>1, OrderOf
  <2> QED BY <2>1, CallTypes, ModuleAssumption DEF Evaluation
<1> HIDE DEF e
<1>4. calls' \in Seq(CallRecords)
  BY <1>2, <1>3, OneOrNone
<1>5. Typed'
  BY <1>1, <1>2, <1>4, ModuleAssumption DEF Typed
<1>6. \A k \in DOMAIN calls' : k = 1 /\ k = Len(calls') /\ calls'[k] = e
  <2>1. CASE calls' = <<e>>
    BY <1>3, <2>1, OneOrNone
  <2>2. CASE calls' = <<>>
    BY <2>2
  <2> QED BY <1>2, <2>1, <2>2
<1>7. CallsFit'
  BY <1>3, <1>6 DEF CallsFit, Fits, EvaluationFits
<1>8. ~InCall("body")' /\ ~InCall("body")
  BY <1>2, <1>3 DEF InCall, Last
<1>9. BodiesFit'
  BY <1>1, <1>2, <1>8 DEF BodiesFit, Running
<1>10. Begun' /\ JobsFit'
  BY <1>1, <1>2 DEF Begun, JobsFit, Pending
<1>11. AskersFit'
  BY <1>3, <1>6 DEF AskersFit
<1>12. EvaluationsFit'
  <2> SUFFICES ASSUME NEW k \in DOMAIN calls', calls'[k].kind = "evaluate"
               PROVE  \E x \in Modules : \E i \in 0 .. Len(Order(x)') : Into(k, x, i)'
    BY DEF EvaluationsFit
  <2>1. calls'[k] = Evaluation(Order(entry), 0)
    BY <1>6 DEF e
  <2>2. 0 \in 0 .. Len(Order(entry)') /\ Into(k, entry, 0)'
    BY <1>1, <1>2, <2>1, BeginsInto
  <2> QED BY <2>2
<1> QED BY <1>5, <1>7, <1>9, <1>10, <1>11, <1>12 DEF GraphInv

LEMMA RunImportKeeps ==
    ASSUME GraphInv, RunImport
    PROVE  GraphInv'
<1>1. Typed /\ BodiesFit /\ CallsFit /\ Begun /\ JobsFit /\ AskersFit /\ EvaluationsFit
  BY DEF GraphInv
<1>2. PICK i : i = Head(queue).id
  OBVIOUS
<1>3. PICK entry : entry = imports[i].module
  OBVIOUS
<1>4. PICK e : e = Evaluation(Order(entry), i)
  OBVIOUS
<1>5. /\ InCall("drain") /\ queue # <<>> /\ Head(queue).kind = "import"
      /\ calls' = Append(calls, e) /\ queue' = Tail(queue)
      /\ UNCHANGED <<requests, record, body, parked, imports, stopped, outcome, runs, awaits>>
  BY <1>2, <1>3, <1>4 DEF RunImport
<1>6. /\ Head(queue) \in Range(queue) /\ Head(queue) = Import(i) /\ i \in Nat \ {0}
      /\ queue' \in Seq(Resumptions \cup ImportJobs) /\ Distinct(queue')
      /\ Range(queue') = Range(queue) \ {Import(i)}
  BY <1>1, <1>2, <1>5, JobTaken, JobKinds
<1>7. i \in DOMAIN imports /\ Pending(i)
  BY <1>1, <1>2, <1>5, <1>6 DEF JobsFit
<1>8. entry \in Modules
  BY <1>1, <1>3, <1>7, JobsAre
<1>9. /\ e \in CallRecords /\ e.kind = "evaluate" /\ e.asker = i
      /\ e.current = NoModule /\ e.result = "value" /\ "value" \notin Modules
  <2>1. Order(entry) \in Seq(Modules)
    BY <1>1, <1>8, OrderOf
  <2> QED BY <1>4, <1>6, <2>1, CallTypes, ModuleAssumption DEF Evaluation
<1>10. PICK n \in Nat \ {0} : n = Len(calls) /\ DOMAIN calls = 1 .. n
  BY <1>1, <1>5, OnTop
<1>11. calls \in Seq(CallRecords) /\ calls[n].kind = "drain"
  BY <1>1, <1>5, <1>10, OnTop
<1>12. /\ calls' \in Seq(CallRecords) /\ Len(calls') = n + 1 /\ DOMAIN calls' = 1 .. n + 1
       /\ \A k \in 1 .. n : calls'[k] = calls[k]
       /\ calls'[n + 1] = e
  BY <1>5, <1>9, <1>10, <1>11, PushedOn
<1>13. \A k \in DOMAIN calls' : k \in 1 .. n \/ k = n + 1
  BY <1>12
<1>14. \A k \in 1 .. n : k \in DOMAIN calls /\ calls'[k] = calls[k] /\ k # n + 1
  BY <1>10, <1>12
<1>15. ASSUME NEW k \in DOMAIN calls' PROVE Fits(k)'
  <2>1. CASE k \in 1 .. n /\ k # n
    <3>1. k \in 1 .. n /\ n \in Nat /\ k < Len(calls) /\ k < Len(calls')
      BY <1>10, <1>12, <2>1
    <3> QED BY <1>1, <1>12, <1>14, <3>1, BelowFits
  <2>2. CASE k = n
    <3>1. Fits(k) /\ calls'[k] = calls[k] /\ calls[k].kind = "drain"
      BY <1>1, <1>10, <1>11, <1>14, <2>2 DEF CallsFit
    <3>2. \A x : Is(k - 1, x)' <=> Is(k - 1, x)
      BY <1>10, <1>12, <2>2 DEF Is
    <3>3. ASSUME Is(k - 1, "evaluate") PROVE calls'[k - 1] = calls[k - 1]
      BY <1>10, <1>12, <2>2, <3>3 DEF Is
    <3> QED BY <3>1, <3>2, <3>3 DEF Fits, DrainFits
  <2>3. CASE k = n + 1
    <3>1. calls'[k] = e /\ k = Len(calls') /\ Is(k - 1, "drain")' /\ k # 1
      BY <1>10, <1>11, <1>12, <2>3 DEF Is
    <3> QED BY <1>6, <1>9, <3>1 DEF Fits, EvaluationFits
  <2> QED BY <1>13, <2>1, <2>2, <2>3
<1>16. CallsFit'
  BY <1>15 DEF CallsFit
<1>17. Typed'
  BY <1>1, <1>5, <1>6, <1>12 DEF Typed
<1>18. BodiesFit'
  <2>1. ~InCall("body")' /\ ~InCall("body")
    BY <1>5, <1>9, <1>12 DEF InCall, Last
  <2> QED BY <1>1, <1>5, <2>1 DEF BodiesFit, Running
<1>19. Begun'
  BY <1>1, <1>5 DEF Begun
<1>20. JobsFit'
  BY <1>1, <1>5, <1>6 DEF JobsFit, Pending
<1>21. \A k \in 1 .. n : calls[k].kind = "evaluate" => calls[k].asker # i
  <2> SUFFICES ASSUME NEW k \in 1 .. n, calls[k].kind = "evaluate", calls[k].asker = i PROVE FALSE
    OBVIOUS
  <2>1. Import(i) \notin Range(queue)
    BY <1>1, <1>6, <1>14 DEF AskersFit
  <2> QED BY <1>6, <2>1
<1>22. AskersFit'
  <2> SUFFICES ASSUME NEW k \in DOMAIN calls', calls'[k].kind = "evaluate", calls'[k].asker # 0
               PROVE  /\ calls'[k].asker \in DOMAIN imports /\ Pending(calls'[k].asker)
                      /\ Import(calls'[k].asker) \notin Range(queue')
                      /\ \A j \in DOMAIN calls' :
                            calls'[j].kind = "evaluate" /\ calls'[j].asker = calls'[k].asker => j = k
    BY <1>5 DEF AskersFit, Pending
  <2>1. CASE k = n + 1
    BY <1>6, <1>7, <1>9, <1>12, <1>13, <1>14, <1>21, <2>1
  <2>2. CASE k \in 1 .. n
    BY <1>1, <1>6, <1>9, <1>12, <1>13, <1>14, <1>21, <2>2 DEF AskersFit
  <2> QED BY <1>13, <2>1, <2>2
<1>23. EvaluationsFit'
  <2> SUFFICES ASSUME NEW k \in DOMAIN calls', calls'[k].kind = "evaluate"
               PROVE  \E x \in Modules : \E l \in 0 .. Len(Order(x)') : Into(k, x, l)'
    BY DEF EvaluationsFit
  <2>1. CASE k = n + 1
    <3>1. calls'[k] = Evaluation(Order(entry), i) /\ imports'[i].module = entry
      BY <1>3, <1>4, <1>5, <1>12, <2>1
    <3>2. 0 \in 0 .. Len(Order(entry)') /\ Into(k, entry, 0)'
      BY <1>1, <1>5, <1>6, <1>8, <3>1, BeginsInto
    <3> QED BY <1>8, <3>2
  <2>2. CASE k \in 1 .. n
    <3>1. Alike(k)
      BY <1>14, <2>2 DEF Alike
    <3>2. PICK x \in Modules : \E l \in 0 .. Len(Order(x)) : Into(k, x, l)
      BY <1>1, <3>1 DEF EvaluationsFit, Alike
    <3>3. PICK l \in 0 .. Len(Order(x)) : Into(k, x, l)
      BY <3>2
    <3>4. \A j \in DOMAIN calls' : calls'[j].kind = "evaluate" =>
             SameCurrent(j) \/ calls'[j].current \notin Modules
      <4> SUFFICES ASSUME NEW j \in DOMAIN calls', calls'[j].kind = "evaluate"
                   PROVE  SameCurrent(j) \/ calls'[j].current \notin Modules
        OBVIOUS
      <4>1. CASE j = n + 1
        BY <1>9, <1>12, <4>1, ModuleAssumption
      <4>2. CASE j \in 1 .. n
        BY <1>14, <4>2 DEF SameCurrent
      <4> QED BY <1>13, <4>1, <4>2
    <3>5. ImportsGrow
      BY <1>5 DEF ImportsGrow
    <3>6. l \in 0 .. Len(Order(x)') /\ Into(k, x, l)'
      BY <1>1, <1>5, <3>1, <3>3, <3>4, <3>5, StillInto
    <3> QED BY <3>6
  <2> QED BY <1>13, <2>1, <2>2
<1> QED BY <1>16, <1>17, <1>18, <1>19, <1>20, <1>22, <1>23 DEF GraphInv

-----------------------------------------------------------------------------
(* The invariant is one.                                                   *)

LEMMA InitGives ==
    ASSUME Init
    PROVE  GraphInv
<1>1. Typed
  <2>1. /\ calls \in Seq(CallRecords)
        /\ queue \in Seq(Resumptions \cup ImportJobs)
        /\ imports \in Seq([module : Modules, by : Modules, answer : Answers])
    BY OneOrNone DEF Init
  <2>2. /\ record \in [Modules -> [evaluated : BOOLEAN, failed : BOOLEAN]]
        /\ body \in [Modules -> BodyStates]
        /\ requests \in Graphs /\ stopped \in BOOLEAN
        /\ outcome \in {"none", "value", "interrupted", "unlinked"} \cup Modules
    BY DEF Init, BodyStates
  <2>3. parked \in [Modules -> [on : {"nothing", "job", "other", "import"}, id : Nat]]
    BY WaitTypes DEF Init
  <2>4. runs \in 0 .. MaxRuns /\ awaits \in 0 .. MaxAwaits
    BY ModuleAssumption DEF Init
  <2> QED BY <2>1, <2>2, <2>3, <2>4 DEF Typed
<1>2. DOMAIN calls = {} /\ DOMAIN queue = {} /\ DOMAIN imports = {} /\ calls = <<>>
  BY DEF Init
<1>3. BodiesFit
  BY <1>2 DEF Init, BodiesFit, Running, InCall
<1>4. CallsFit /\ AskersFit /\ EvaluationsFit
  BY <1>2 DEF CallsFit, AskersFit, EvaluationsFit
<1>5. Begun
  BY DEF Init, Begun
<1>6. JobsFit
  BY <1>2 DEF JobsFit, Distinct, Range
<1> QED BY <1>1, <1>3, <1>4, <1>5, <1>6 DEF GraphInv

LEMMA NothingKeeps ==
    ASSUME GraphInv, UNCHANGED vars
    PROVE  GraphInv'
<1>1. Typed /\ BodiesFit /\ CallsFit /\ Begun /\ JobsFit /\ AskersFit /\ EvaluationsFit
  BY DEF GraphInv
<1>2. UNCHANGED <<requests, record, body, parked, calls, queue, imports, stopped,
                  outcome, runs, awaits>>
  BY DEF vars
<1>3. Typed' /\ Begun' /\ JobsFit'
  BY <1>1, <1>2 DEF Typed, Begun, JobsFit, Pending
<1>4. BodiesFit'
  BY <1>1, <1>2 DEF BodiesFit, Running, InCall, Top
<1>5. CallsFit' /\ AskersFit' /\ EvaluationsFit'
  <2>1. CallsChanged
    BY <1>1, <1>2, CallsStand
  <2> QED BY <1>2, <2>1, CallsOnly DEF ImportsGrow, Pending
<1> QED BY <1>3, <1>4, <1>5 DEF GraphInv

LEMMA StepKeeps ==
    ASSUME GraphInv, [Next]_vars
    PROVE  GraphInv'
<1>1. CASE \E entry \in Modules : RunGraph(entry)
  BY <1>1, RunGraphKeeps
<1>2. CASE Engine
  BY <1>2, PassOverKeeps, StartKeeps, EndingsKeep, LookKeeps, ResumptionKeeps, RunImportKeeps,
     RefuseKeeps, EndDrainKeeps DEF Engine
<1>3. ASSUME NEW m \in Modules,
             \/ \E target \in Modules : BeginImport(m, target)
             \/ \E on \in {Queued, Another} \cup {OnImport(i) : i \in DOMAIN imports} :
                   Await(m, on)
             \/ \E other \in Modules : Settle(m, other)
             \/ Leave(m)
             \/ StopBody(m)
      PROVE  GraphInv'
  BY <1>3, BeginImportKeeps, AwaitKeeps, SettleKeeps, FinishKeeps, StopKeeps DEF Leave
<1>4. CASE UNCHANGED vars
  BY <1>4, NothingKeeps
<1> QED BY <1>1, <1>2, <1>3, <1>4 DEF Next

(* The invariant holds in every reachable state.                           *)
THEOREM GraphInvHolds == Spec => []GraphInv
<1>1. Init => GraphInv
  BY InitGives
<1>2. GraphInv /\ [Next]_vars => GraphInv'
  BY StepKeeps
<1> QED BY <1>1, <1>2, PTL DEF Spec

(* Every call, job, import() and record keeps its type, and a body is on   *)
(* top of the calls exactly when it runs.                                  *)
THEOREM TypesHold == Spec => []TypeOK
<1>1. GraphInv => TypeOK
  BY TypesGive
<1> QED BY <1>1, GraphInvHolds, PTL

-----------------------------------------------------------------------------
(* Bodies.                                                                 *)

(* What a step does to the bodies.                                         *)
LEMMA BodiesMove ==
    ASSUME GraphInv, [Next]_vars
    PROVE  \/ body' = body
           \/ StartBody
           \/ RunResumption
           \/ \E m \in Modules : \E to \in {"parked", "done", "threw", "stopped"} :
                 body[m] = "running" /\ body' = [body EXCEPT ![m] = to]
<1>1. CASE \E entry \in Modules : RunGraph(entry)
  BY <1>1 DEF RunGraph
<1>2. CASE Engine
  BY <1>2 DEF Engine, PassOver, MeetFailure, RecordFailure, EndOfOrder, End, LookAtPromise,
     RunImport, RefuseImport, EndDrain
<1>3. ASSUME NEW m \in Modules,
             \/ \E target \in Modules : BeginImport(m, target)
             \/ \E on \in {Queued, Another} \cup {OnImport(i) : i \in DOMAIN imports} :
                   Await(m, on)
             \/ \E other \in Modules : Settle(m, other)
             \/ Leave(m)
             \/ StopBody(m)
      PROVE  \/ body' = body
             \/ \E to \in {"parked", "done", "threw", "stopped"} :
                   body[m] = "running" /\ body' = [body EXCEPT ![m] = to]
  <2>1. CASE \E target \in Modules : BeginImport(m, target)
    BY <2>1 DEF BeginImport
  <2>2. CASE \E other \in Modules : Settle(m, other)
    BY <2>2 DEF Settle
  <2>3. CASE \E on \in {Queued, Another} \cup {OnImport(i) : i \in DOMAIN imports} :
                Await(m, on)
    BY <2>3, RunningIsOnTop DEF Await
  <2>4. CASE Leave(m)
    BY <2>4, RunningIsOnTop DEF Leave, FinishBody, ThrowFromBody
  <2>5. CASE StopBody(m)
    BY <2>5, RunningIsOnTop DEF StopBody
  <2> QED BY <1>3, <2>1, <2>2, <2>3, <2>4, <2>5
<1>4. CASE UNCHANGED vars
  BY <1>4 DEF vars
<1> QED BY <1>1, <1>2, <1>3, <1>4 DEF Next

LEMMA ResumptionIs ==
    ASSUME GraphInv, RunResumption, NEW m \in Modules, body'[m] # body[m]
    PROVE  body[m] = "parked" /\ queue # <<>> /\ Head(queue) = Resume(m) /\ queue' # queue
<1>1. Typed /\ BodiesFit /\ JobsFit
  BY DEF GraphInv
<1>2. PICK x : x = Head(queue).module
  OBVIOUS
<1>3. /\ queue # <<>> /\ Head(queue).kind = "resume" /\ queue' = Tail(queue)
      /\ body' = [body EXCEPT ![x] = IF stopped THEN "stopped" ELSE "running"]
  BY <1>2 DEF RunResumption
<1>4. /\ Head(queue) \in Range(queue) /\ x \in Modules /\ Head(queue) = Resume(x)
      /\ Tail(queue) # queue
  BY <1>1, <1>2, <1>3, JobTaken, JobKinds
<1>5. m = x
  BY <1>1, <1>3 DEF Typed
<1>6. parked[x] = Queued
  BY <1>1, <1>2, <1>3, <1>4 DEF JobsFit
<1>7. body[x] = "parked"
  BY <1>1, <1>4, <1>6, WaitTypes DEF BodiesFit
<1> QED BY <1>3, <1>4, <1>5, <1>7

LEMMA StartIsOf ==
    ASSUME GraphInv, StartBody, NEW m \in Modules, body'[m] # body[m]
    PROVE  m = Coming /\ body[m] = "idle"
<1>1. Typed /\ Begun /\ InCall("evaluate") /\ Top.order # <<>>
  BY DEF GraphInv, StartBody
<1>2. PICK x \in Modules : x = Coming
  BY <1>1, TakingTypes
<1>3. ~record[x].evaluated /\ \E to : body' = [body EXCEPT ![x] = to]
  BY <1>2 DEF StartBody
<1>4. m = x
  BY <1>1, <1>3 DEF Typed
<1> QED BY <1>1, <1>2, <1>3, <1>4 DEF Begun

OnceOnly ==
    \A m \in Modules :
       body'[m] = "running" /\ body[m] # "running" =>
          \/ body[m] = "idle"
          \/ /\ body[m] = "parked"
             /\ queue # <<>> /\ Head(queue) = Resume(m)
             /\ queue' # queue

LEMMA StepsOnceOnly ==
    ASSUME GraphInv, [Next]_vars
    PROVE  OnceOnly
<1> SUFFICES ASSUME NEW m \in Modules, body'[m] = "running", body[m] # "running"
             PROVE  \/ body[m] = "idle"
                    \/ /\ body[m] = "parked"
                       /\ queue # <<>> /\ Head(queue) = Resume(m)
                       /\ queue' # queue
  BY DEF OnceOnly
<1>1. ASSUME NEW x \in Modules, NEW to \in {"parked", "done", "threw", "stopped"},
             body' = [body EXCEPT ![x] = to]
      PROVE  FALSE
  <2>1. body \in [Modules -> BodyStates]
    BY DEF GraphInv, Typed
  <2> QED BY <1>1, <2>1
<1> QED BY <1>1, BodiesMove, StartIsOf, ResumptionIs

(* A module's body is entered at its beginning once, and again only by the *)
(* job its own await queued, whatever runs, imports and cycles reach it    *)
(* (record.evaluated, set before the body runs).                           *)
THEOREM BodiesRunOnce == Spec => EachBodyOnce
<1>1. GraphInv /\ [Next]_vars => [OnceOnly]_vars
  BY StepsOnceOnly
<1>2. [][OnceOnly]_vars => EachBodyOnce
  BY PTL DEF EachBodyOnce, OnceOnly
<1>3. Spec => [][OnceOnly]_vars
  BY <1>1, GraphInvHolds, PTL DEF Spec
<1> QED BY <1>2, <1>3

FirstDependencies ==
    \A m \in Modules :
       body[m] = "idle" /\ body'[m] # "idle" =>
          \A d \in Modules : DependsOn(m, d) =>
             /\ body[d] \notin {"idle", "running"}
             /\ ~record[d].failed

LEMMA StepsFirstDependencies ==
    ASSUME GraphInv, [Next]_vars
    PROVE  FirstDependencies
<1> SUFFICES ASSUME NEW m \in Modules, body[m] = "idle", body'[m] # "idle",
                    NEW d \in Modules, DependsOn(m, d)
             PROVE  body[d] \notin {"idle", "running"} /\ ~record[d].failed
  BY DEF FirstDependencies
<1>1. Typed /\ Begun
  BY DEF GraphInv
<1>2. ASSUME NEW x \in Modules, NEW to, body[x] = "running", body' = [body EXCEPT ![x] = to]
      PROVE  FALSE
  BY <1>1, <1>2 DEF Typed
<1>3. StartBody
  BY <1>2, BodiesMove, ResumptionIs
<1>4. m = Coming
  BY <1>3, StartIsOf
<1>5. InCall("evaluate") /\ Top.order # <<>>
  BY <1>3 DEF StartBody
<1>6. /\ \A x \in Modules : body[x] # "running"
      /\ \E entry \in Modules : \E n \in 0 .. Len(Order(entry)) : Into(Len(calls), entry, n)
  BY <1>5, EvaluationOnTop
<1>7. PICK entry \in Modules : \E n \in 0 .. Len(Order(entry)) : Into(Len(calls), entry, n)
  BY <1>6
<1>8. PICK n \in 0 .. Len(Order(entry)) : Into(Len(calls), entry, n)
  BY <1>7
<1>9. n + 1 \in 1 .. Len(Order(entry)) /\ m = Order(entry)[n + 1]
  BY <1>4, <1>5, <1>8, ComingIs
<1>10. \E j \in 1 .. (n + 1) - 1 : Order(entry)[j] = d
  <2>1. n + 1 \in DOMAIN Order(entry)
    BY <1>1, <1>9, OrderOf
  <2> QED BY <1>1, <1>9, <2>1, OrderOf
<1>11. PICK j \in 1 .. n : Order(entry)[j] = d
  BY <1>10
<1>12. record[d].evaluated /\ ~record[d].failed
  BY <1>8, <1>11 DEF Into
<1> QED BY <1>1, <1>6, <1>12 DEF Begun

(* When a body begins, every module it requests outside a cycle has begun, *)
(* is off the stack and has no recorded failure: the order of a walk puts  *)
(* a module behind what it requests, an evaluation goes through it from    *)
(* the front, and it ends at the first throw (visit, link_and_evaluate).   *)
THEOREM DependenciesGoFirst == Spec => DependenciesFirst
<1>1. GraphInv /\ [Next]_vars => [FirstDependencies]_vars
  BY StepsFirstDependencies
<1>2. [][FirstDependencies]_vars => DependenciesFirst
  BY PTL DEF DependenciesFirst, FirstDependencies
<1>3. Spec => [][FirstDependencies]_vars
  BY <1>1, GraphInvHolds, PTL DEF Spec
<1> QED BY <1>2, <1>3

-----------------------------------------------------------------------------
(* Answers.                                                                *)

(* What a step does to an answer.                                          *)
LEMMA AnswersMove ==
    ASSUME GraphInv, [Next]_vars, NEW i \in DOMAIN imports,
           imports'[i].answer # imports[i].answer
    PROVE  RefuseImport \/ MeetFailure \/ RecordFailure \/ EndOfOrder
<1>1. imports' # imports
  OBVIOUS
<1>2. CASE \E entry \in Modules : RunGraph(entry)
  BY <1>1, <1>2 DEF RunGraph
<1>3. CASE Engine
  BY <1>1, <1>3 DEF Engine, PassOver, StartBody, LookAtPromise, RunResumption, RunImport, EndDrain
<1>4. ASSUME NEW m \in Modules,
             \/ \E target \in Modules : BeginImport(m, target)
             \/ \E on \in {Queued, Another} \cup {OnImport(j) : j \in DOMAIN imports} :
                   Await(m, on)
             \/ \E other \in Modules : Settle(m, other)
             \/ Leave(m)
             \/ StopBody(m)
      PROVE  FALSE
  <2>1. ASSUME NEW target \in Modules, BeginImport(m, target) PROVE FALSE
    <3>1. PICK new : imports' = Append(imports, new)
      BY <2>1 DEF BeginImport
    <3>2. imports \in Seq([module : Modules, by : Modules, answer : Answers])
      BY DEF GraphInv, Typed
    <3>3. imports'[i] = imports[i]
      BY <3>1, <3>2
    <3> QED BY <3>3
  <2> QED BY <1>1, <1>4, <2>1 DEF Await, Settle, Leave, FinishBody, ThrowFromBody, StopBody
<1>5. CASE UNCHANGED vars
  BY <1>1, <1>5 DEF vars
<1> QED BY <1>2, <1>3, <1>4, <1>5 DEF Next

(* The evaluation on top ends, and the answer is its asker's.              *)
LEMMA EndAnswers ==
    ASSUME GraphInv, InCall("evaluate"), NEW result \in Results, End(result),
           NEW i \in DOMAIN imports, imports'[i].answer # imports[i].answer
    PROVE  /\ Pending(i) /\ imports'[i].answer = AnswerFor(result)
           /\ Top.asker = i /\ i # 0
<1>1. Typed /\ BodiesFit /\ JobsFit
  BY DEF GraphInv
<1>2. Top.asker # 0 => /\ Top.asker \in DOMAIN imports /\ Pending(Top.asker)
                       /\ Import(Top.asker) \notin Range(queue)
  BY EvaluationOnTop
<1>3. Top.asker # 0 /\ Answer(Top.asker, AnswerFor(result), queue)
  BY DEF End
<1>4. AnswerFor(result) \in Answers
  BY ModuleAssumption DEF AnswerFor, Answers, Results
<1>5. queue \in Seq(Resumptions \cup ImportJobs) /\ Distinct(queue)
  BY <1>1 DEF Typed, JobsFit
<1>6. /\ \A j \in DOMAIN imports : j # Top.asker => imports'[j] = imports[j]
      /\ imports'[Top.asker].answer = AnswerFor(result)
  BY <1>1, <1>2, <1>3, <1>4, <1>5, Answering
<1> QED BY <1>2, <1>3, <1>6

AnswerTells(i) ==
    LET reached == Reached(imports[i].module)
        answer == imports'[i].answer
    IN  /\ Pending(i)
        /\ answer = "namespace" =>
              \A m \in reached : record'[m].evaluated /\ ~record'[m].failed
        /\ answer \in Modules => answer \in reached /\ record'[answer].failed

AnswersTell ==
    \A i \in DOMAIN imports :
       imports'[i].answer # imports[i].answer => AnswerTells(i)

LEMMA StepsAnswersTell ==
    ASSUME GraphInv, [Next]_vars
    PROVE  AnswersTell
<1> SUFFICES ASSUME NEW i \in DOMAIN imports, imports'[i].answer # imports[i].answer
             PROVE  AnswerTells(i)
  BY DEF AnswersTell
<1>1. Typed /\ BodiesFit /\ JobsFit
  BY DEF GraphInv
<1>2. CASE RefuseImport
  <2>1. PICK j : j = Head(queue).id
    OBVIOUS
  <2>2. queue # <<>> /\ Head(queue).kind = "import" /\ Answer(j, "refused", Tail(queue))
    BY <1>2, <2>1 DEF RefuseImport
  <2>3. /\ Head(queue) \in Range(queue) /\ Head(queue) = Import(j)
        /\ Tail(queue) \in Seq(Resumptions \cup ImportJobs) /\ Distinct(Tail(queue))
        /\ Range(Tail(queue)) = Range(queue) \ {Import(j)}
    BY <1>1, <2>1, <2>2, JobTaken, JobKinds
  <2>4. j \in DOMAIN imports /\ Pending(j)
    BY <1>1, <2>1, <2>2, <2>3 DEF JobsFit
  <2>5. "refused" \in Answers
    BY DEF Answers
  <2>6. /\ \A k \in DOMAIN imports : k # j => imports'[k] = imports[k]
        /\ imports'[j].answer = "refused"
    BY <1>1, <2>2, <2>3, <2>4, <2>5, Answering
  <2>7. i = j
    BY <2>6
  <2> QED BY <2>4, <2>6, <2>7, ModuleAssumption DEF AnswerTells
<1>3. CASE MeetFailure \/ RecordFailure \/ EndOfOrder
  <2>1. InCall("evaluate")
    BY <1>3 DEF MeetFailure, RecordFailure, EndOfOrder
  <2>2. /\ Top \in Evaluations /\ Top = calls[Len(calls)]
        /\ Threw(Top) => Top.result = Top.current
        /\ \E entry \in Modules : \E n \in 0 .. Len(Order(entry)) : Into(Len(calls), entry, n)
    BY <2>1, EvaluationOnTop
  <2>3. PICK entry \in Modules : \E n \in 0 .. Len(Order(entry)) : Into(Len(calls), entry, n)
    BY <2>2
  <2>4. PICK n \in 0 .. Len(Order(entry)) : Into(Len(calls), entry, n)
    BY <2>3
  <2>5. PICK order \in Seq(Modules) : order = Order(entry)
    BY <1>1, OrderOf
  <2>6. /\ Top.asker # 0 => imports[Top.asker].module = entry
        /\ Top.order = SubSeq(order, n + 1, Len(order))
        /\ Top.current \in Modules => \E k \in 1 .. n : order[k] = Top.current
        /\ \A k \in 1 .. n : record[order[k]].evaluated /\ ~record[order[k]].failed
    BY <2>2, <2>4, <2>5 DEF Into
  <2>7. Reached(entry) = {order[k] : k \in 1 .. Len(order)}
    BY <1>1, <2>5, OrderOf
  <2>8. ASSUME NEW m \in Modules PROVE AnswerFor(m) = m
    BY <2>8, ModuleAssumption DEF AnswerFor
  <2>9. "namespace" \notin Modules /\ "refused" \notin Modules
    BY ModuleAssumption
  <2>10. CASE MeetFailure
    <3>1. End(Coming) /\ record' = record /\ record[Coming].failed /\ Top.order # <<>>
      BY <2>10 DEF MeetFailure
    <3>2. n + 1 \in 1 .. Len(order) /\ Coming = order[n + 1] /\ Coming \in Modules
      BY <2>1, <2>4, <2>5, <3>1, ComingIs
    <3>3. Coming \in Results
      BY <3>2 DEF Results
    <3>4. Pending(i) /\ imports'[i].answer = Coming /\ Top.asker = i /\ i # 0
      BY <2>1, <2>8, <3>1, <3>2, <3>3, EndAnswers
    <3>5. Coming \in Reached(imports[i].module)
      BY <2>6, <2>7, <3>2, <3>4
    <3> QED BY <2>9, <3>1, <3>2, <3>4, <3>5 DEF AnswerTells
  <2>11. CASE RecordFailure
    <3>1. /\ End(Top.result) /\ Top.result = Top.current /\ Top.current \in Modules
          /\ record' = [record EXCEPT ![Top.current].failed = TRUE]
      BY <2>2, <2>11 DEF RecordFailure, Threw
    <3>2. PICK c \in Modules : c = Top.current
      BY <3>1
    <3>3. c \in Results
      BY DEF Results
    <3>4. Pending(i) /\ imports'[i].answer = c /\ Top.asker = i /\ i # 0
      BY <2>1, <2>8, <3>1, <3>2, <3>3, EndAnswers
    <3>5. record'[c].failed
      BY <1>1, <3>1, <3>2 DEF Typed
    <3>6. c \in Reached(imports[i].module)
      <4>1. PICK k \in 1 .. n : order[k] = c
        BY <2>6, <3>1, <3>2
      <4>2. k \in 1 .. Len(order)
        BY <2>5, <4>1
      <4> QED BY <2>6, <2>7, <3>4, <4>1, <4>2
    <3> QED BY <2>9, <3>4, <3>5, <3>6 DEF AnswerTells
  <2>12. CASE EndOfOrder
    <3>1. End(Top.result) /\ record' = record /\ Top.order = <<>> /\ Top.result \notin Modules
      BY <2>12 DEF EndOfOrder, Threw
    <3>2. Top.result \in Results
      BY <2>2 DEF Evaluations
    <3>3. Pending(i) /\ imports'[i].answer = AnswerFor(Top.result) /\ Top.asker = i /\ i # 0
      BY <2>1, <3>1, <3>2, EndAnswers
    <3>4. AnswerFor(Top.result) \in {"namespace", "refused"}
      BY <3>1, <3>2 DEF AnswerFor, Results
    <3>5. n = Len(order)
      <4>1. Len(order) \in Nat /\ n \in 0 .. Len(order)
        BY <2>5
      <4>2. n < Len(order) => Len(SubSeq(order, n + 1, Len(order))) = Len(order) - n
        BY <2>5, <4>1
      <4> QED BY <2>6, <3>1, <4>1, <4>2
    <3>6. \A m \in Reached(imports[i].module) : record[m].evaluated /\ ~record[m].failed
      BY <2>6, <2>7, <3>3, <3>5
    <3> QED BY <2>9, <3>1, <3>3, <3>4, <3>6 DEF AnswerTells
  <2> QED BY <1>3, <2>10, <2>11, <2>12
<1> QED BY <1>2, <1>3, AnswersMove

(* What import() is told is true of its graph, and final: a namespace only *)
(* when every module of the graph has begun and none has a recorded        *)
(* failure, a throw only if it is the recorded failure of a module of the  *)
(* graph (link_and_evaluate and import_job).                               *)
THEOREM AnswersAreTrue == Spec => AnswersTellTheGraph
<1>1. GraphInv /\ [Next]_vars => [AnswersTell]_vars
  BY StepsAnswersTell
<1>2. [][AnswersTell]_vars => AnswersTellTheGraph
  BY PTL DEF AnswersTellTheGraph, AnswersTell, AnswerTells
<1>3. Spec => [][AnswersTell]_vars
  BY <1>1, GraphInvHolds, PTL DEF Spec
<1> QED BY <1>2, <1>3
=============================================================================
